---- MODULE Spec2Model ----
(***************************************************************************)
(* Model of the multi-spectral field analysis engine of src/js/eye.js      *)
(* (EyeModule and its SpectralProcessor).                                  *)
(*                                                                         *)
(* JavaScript numbers are modelled as exact rationals <<n, d>> with d > 0  *)
(* in lowest terms; NaN (the result of 0/0) is <<0, 0>>.  Every quotient   *)
(* the engine forms has integer operands, and IEEE-754 division is         *)
(* monotone and exact on the values 0, 1, -1 and 2, so the comparisons     *)
(* made here on exact quotients agree with the comparisons on doubles.     *)
(* The one place where the double differs observably from the exact value  *)
(* is the argument of Math.round in simulateNIR, see there.                *)
(***************************************************************************)
EXTENDS Integers, Sequences, FiniteSets, TLC

VARIABLES
    px,        \* band simulator: the pixel {r, g, b} under evaluation
    tieUp,     \* band simulator: how the double of an exact .5 tie rounds
    sample,    \* band simulator: {} or the one BandSample computed for px
    width,     \* SpectralProcessor.width
    height,    \* SpectralProcessor.height
    imageData, \* SpectralProcessor.imageData.data, one {r, g, b} per pixel
    zonesArg,  \* the argument of calculateZoneStats
    zoneOut,   \* {} or the one array calculateZoneStats returned
    visited,   \* per zone, the pixels its inner loops iterated over
    planZones, \* generateActionPlan: the zones argument
    planAi,    \* generateActionPlan: the aiPlan argument
    planOut,   \* {} or the one plan generateActionPlan returned
    spectral,  \* {} or the spectralData generateFullAnalysis returned
    rand,      \* what Math.random() returns in mergeSpectralWithAI, in hundredths
    mergeAi,   \* {} or the aiResult given to mergeSpectralWithAI
    mergeOut,  \* {} or the object mergeSpectralWithAI returned
    currentImage,     \* EyeModule.currentImage
    currentImageMime, \* EyeModule.currentImageMime
    analysisResult,   \* EyeModule.analysisResult
    spectralData,     \* EyeModule.spectralData
    falseColorImages, \* EyeModule.falseColorImages
    previewSrc,       \* the src of #eye-preview-img
    analyzeBtn,       \* #eye-analyze-btn: disabled, and loader shown for label
    resultsContainer, \* #eye-results: hidden, and what it shows
    handleFileCalls,  \* per handleFile call, where it is
    analyzeFieldCalls, \* per analyzeField call, where it is and what it did
    callArgs,   \* a classifier or synthesizer function called alone: its arguments
    callResult  \* {} or the one value that call returned

bandVars == <<px, tieUp, sample>>

zoneVars == <<width, height, imageData, zonesArg, zoneOut, visited>>

planVars == <<planZones, planAi, planOut>>

mergeVars == <<spectral, rand, mergeAi, mergeOut>>

eyeVars ==
    <<currentImage, currentImageMime, analysisResult, spectralData, falseColorImages,
      previewSrc, analyzeBtn, resultsContainer, handleFileCalls, analyzeFieldCalls>>

callVars == <<callArgs, callResult>>

vars == <<bandVars, zoneVars, planVars, mergeVars, eyeVars, callVars>>

----------------------------------------------------------------------------
(* Numbers *)

Abs(x) == IF x < 0 THEN -x ELSE x

Min(a, b) == IF a < b THEN a ELSE b

Max(a, b) == IF a > b THEN a ELSE b

RECURSIVE GCD(_, _)
GCD(a, b) == IF b = 0 THEN a ELSE GCD(b, a % b)

\* the quotient n / d of two integers, d # 0, in lowest terms
Quot(n, d) ==
    LET g == GCD(Abs(n), Abs(d))
        s == IF d < 0 THEN -1 ELSE 1
    IN  <<(s * n) \div g, (s * d) \div g>>

NaN == <<0, 0>>

IsNaN(q) == q[2] = 0

Num(n) == <<n, 1>>

\* comparisons as JavaScript makes them: every comparison with NaN is false
Lt(a, b) == ~IsNaN(a) /\ ~IsNaN(b) /\ a[1] * b[2] < b[1] * a[2]

Le(a, b) == ~IsNaN(a) /\ ~IsNaN(b) /\ a[1] * b[2] <= b[1] * a[2]

Gt(a, b) == Lt(b, a)

InRange(q, lo, hi) == Le(Num(lo), q) /\ Le(q, Num(hi))

\* arithmetic; NaN is contagious
AddQ(a, b) ==
    IF IsNaN(a) \/ IsNaN(b) THEN NaN
    ELSE Quot(a[1] * b[2] + b[1] * a[2], a[2] * b[2])

MulQ(a, b) ==
    IF IsNaN(a) \/ IsNaN(b) THEN NaN
    ELSE Quot(a[1] * b[1], a[2] * b[2])

\* q / n for a count n >= 0; the only zero divisor the engine meets is 0/0
DivQ(q, n) ==
    IF IsNaN(q) \/ n = 0 THEN NaN ELSE Quot(q[1], q[2] * n)

\* Math.round: the nearest integer, an exact half going up; NaN stays NaN
MathRound(q) ==
    IF IsNaN(q) THEN NaN ELSE Num((2 * q[1] + q[2]) \div (2 * q[2]))

\* Math.min / Math.max return NaN when either argument is NaN
MathMin(a, b) == IF IsNaN(a) \/ IsNaN(b) THEN NaN ELSE IF Lt(b, a) THEN b ELSE a

MathMax(a, b) == IF IsNaN(a) \/ IsNaN(b) THEN NaN ELSE IF Lt(a, b) THEN b ELSE a

Pow10(k) == IF k = 0 THEN 1 ELSE IF k = 1 THEN 10 ELSE IF k = 2 THEN 100 ELSE 1000

\* parseFloat(q.toFixed(digits)): the decimal string with that many digits,
\* nearest to q (a half rounds away from zero), read back as a number;
\* NaN.toFixed() is "NaN" and reads back as NaN
ToFixed(q, digits) ==
    IF IsNaN(q) THEN NaN
    ELSE LET m == (2 * Abs(q[1]) * Pow10(digits) + q[2]) \div (2 * q[2])
         IN  Quot(IF q[1] < 0 THEN -m ELSE m, Pow10(digits))

----------------------------------------------------------------------------
(* Band Simulator: SpectralProcessor.simulateNIR .. calculateExG *)

MaxChannel == 255

\* g*1.4 + (255-r)*0.3 - b*0.2, in exact tenths
NIRTenths(r, g, b) == 14 * g + 3 * (MaxChannel - r) - 2 * b

\* Math.round of t/10.  Math.round rounds an exact half up, but the double
\* computed for the sum above can fall just below an exact .5 (for instance
\* r=0, g=2, b=164 gives 46.49999999999999), so at an exact tie the result is
\* either neighbour; tieUp is the direction the double takes.
RoundTenths(t) ==
    IF t % 10 = 5
    THEN (IF tieUp THEN (t + 5) \div 10 ELSE (t - 5) \div 10)
    ELSE (t + 5) \div 10

\* the rounded sum floored at 0 but not capped at 255
simulateNIR_noCeiling(r, g, b) == Max(0, RoundTenths(NIRTenths(r, g, b)))

simulateNIR_noFloor(r, g, b) == RoundTenths(Min(MaxChannel * 10, NIRTenths(r, g, b)))

simulateNIR(r, g, b) ==
    LET nir == Min(MaxChannel * 10, NIRTenths(r, g, b))
    IN  Max(0, RoundTenths(nir))

\* the difference taken the other way round: (Red - NIR) / (NIR + Red)
calculateNDVI_redMinusNIR(r, g, b) ==
    LET nir == simulateNIR(r, g, b)
        denominator == nir + r
    IN  IF denominator = 0 THEN Num(0) ELSE Quot(r - nir, denominator)

calculateNDVI(r, g, b) ==
    LET nir == simulateNIR(r, g, b)
        denominator == nir + r
    IN  IF denominator = 0 THEN Num(0) ELSE Quot(nir - r, denominator)

calculateNDWI(r, g, b) ==
    LET nir == simulateNIR(r, g, b)
        denominator == g + nir
    IN  IF denominator = 0 THEN Num(0) ELSE Quot(g - nir, denominator)

calculateVARI_sumDenominator(r, g, b) ==
    LET denominator == g + r + b
    IN  IF denominator = 0 THEN Num(0) ELSE Quot(g - r, denominator)

calculateVARI(r, g, b) ==
    LET denominator == g + r - b
    IN  IF denominator = 0 THEN Num(0) ELSE Quot(g - r, denominator)

calculateExG_notNormalised(r, g, b) == Num(2 * g - r - b)

\* 2*gn - rn - bn with rn = r/total, gn = g/total, bn = b/total
calculateExG(r, g, b) ==
    LET total == r + g + b
    IN  IF total = 0 THEN Num(0) ELSE Quot(2 * g - r - b, total)

BandSample(p) ==
    [nir  |-> simulateNIR(p.r, p.g, p.b),
     ndvi |-> calculateNDVI(p.r, p.g, p.b),
     ndwi |-> calculateNDWI(p.r, p.g, p.b),
     vari |-> calculateVARI(p.r, p.g, p.b),
     exg  |-> calculateExG(p.r, p.g, p.b)]

----------------------------------------------------------------------------
(* Variables a specification does not use rest at these values *)

BandIdle == px = [r |-> 0, g |-> 0, b |-> 0] /\ tieUp = TRUE /\ sample = {}

ZoneIdle ==
    /\ width = 0 /\ height = 0 /\ imageData = <<>>
    /\ zonesArg = 4 /\ zoneOut = {} /\ visited = <<>>

PlanIdle == planZones = <<>> /\ planAi = [kind |-> "undefined"] /\ planOut = {}

MergeIdle == spectral = {} /\ rand = 0 /\ mergeAi = {} /\ mergeOut = {}

\* bounds on the calls of a behaviour
MaxUploads == 2

MaxAnalyses == 2

\* JavaScript null
Null == [kind |-> "null"]

\* a handleFile / analyzeField call that has not been made
NotCalled == [pc |-> "idle"]

\* the EyeModule object literal and the page before any event
EyeFresh ==
    /\ currentImage = Null
    /\ currentImageMime = Null
    /\ analysisResult = Null
    /\ spectralData = Null
    /\ falseColorImages = Null
    /\ previewSrc = Null
    /\ resultsContainer = [hidden |-> TRUE, content |-> Null]
    /\ handleFileCalls = [u \in 1 .. MaxUploads |-> NotCalled]
    /\ analyzeFieldCalls = [i \in 1 .. MaxAnalyses |-> NotCalled]

EyeIdle == EyeFresh /\ analyzeBtn = [disabled |-> TRUE, loading |-> FALSE]

CallIdle == callArgs = <<>> /\ callResult = {}

----------------------------------------------------------------------------
(* Specification SpecBand: the band functions applied to one pixel *)

\* channel values 0..ChanEdge and 255-ChanEdge..255 are enumerated in full
ChanEdge == 4

ChanMid == {64, 127, 128, 164, 192}

Chan == (0 .. ChanEdge) \cup ((MaxChannel - ChanEdge) .. MaxChannel) \cup ChanMid

IsTie(p) == NIRTenths(p.r, p.g, p.b) % 10 = 5

InitBand ==
    /\ px \in [r : Chan, g : Chan, b : Chan]
    /\ tieUp \in BOOLEAN
    /\ (~IsTie(px) => tieUp)
    /\ sample = {}
    /\ ZoneIdle
    /\ PlanIdle
    /\ MergeIdle
    /\ EyeIdle
    /\ CallIdle

ComputeBand ==
    /\ sample = {}
    /\ sample' = {BandSample(px)}
    /\ UNCHANGED <<callVars, px, tieUp, zoneVars, planVars, mergeVars, eyeVars>>

NextBand == ComputeBand

SpecBand == InitBand /\ [][NextBand]_vars

----------------------------------------------------------------------------
(* Claims on the band functions *)

\* C3 (as stated): for all r, g, b in 0..255 calculateVARI lies in [-1, 1],
\* and equals exactly 0 when g + r - b = 0.
C3_VARIInUnitRange ==
    \A s \in sample :
        /\ InRange(s.vari, -1, 1)
        /\ (px.g + px.r - px.b = 0 => s.vari = Num(0))

\* C3 (amended): calculateVARI equals exactly 0 when g + r - b = 0; it lies
\* in [-1, 1] exactly when g + r - b = 0, b <= 2*min(r, g) or
\* b >= 2*max(r, g); in every case it lies in [-255, 255].
C3_VARIRange ==
    \A s \in sample :
        /\ (px.g + px.r - px.b = 0 => s.vari = Num(0))
        /\ InRange(s.vari, -MaxChannel, MaxChannel)
        /\ InRange(s.vari, -1, 1) <=>
               \/ px.g + px.r - px.b = 0
               \/ px.b <= 2 * Min(px.r, px.g)
               \/ px.b >= 2 * Max(px.r, px.g)

\* a pixel whose VARI is computed and exceeds 1 (g=2, r=0, b=1 gives 2)
C3_Witness ==
    \E s \in sample : Gt(s.vari, Num(1)) /\ px.g + px.r - px.b # 0

\* C4 (as stated): for all r, g, b in 0..255 calculateExG lies in [-1, 1],
\* and equals 0 when r + g + b = 0.
C4_ExGInUnitRange ==
    \A s \in sample :
        /\ InRange(s.exg, -1, 1)
        /\ (px.r + px.g + px.b = 0 => s.exg = Num(0))

\* C4 (amended): calculateExG lies in [-1, 2], exceeds 1 exactly when
\* g > 2*(r + b), and equals 0 when r + g + b = 0.
C4_ExGRange ==
    \A s \in sample :
        /\ InRange(s.exg, -1, 2)
        /\ Gt(s.exg, Num(1)) <=> px.g > 2 * (px.r + px.b)
        /\ (px.r + px.g + px.b = 0 => s.exg = Num(0))

\* ExG of pure green is computed and is 2
C4_Witness ==
    \E s \in sample : px = [r |-> 0, g |-> 255, b |-> 0] /\ s.exg = Num(2)

\* C5: for all r, g, b in 0..255 calculateNDVI and calculateNDWI lie in
\* [-1, 1] (so neither is NaN or an error); NDVI is exactly 0 when
\* nir + r = 0 and NDWI is exactly 0 when g + nir = 0.
C5_NDVINDWIRange ==
    \A s \in sample :
        /\ InRange(s.ndvi, -1, 1)
        /\ InRange(s.ndwi, -1, 1)
        /\ (s.nir + px.r = 0 => s.ndvi = Num(0))
        /\ (px.g + s.nir = 0 => s.ndwi = Num(0))

\* pure red: nir = 0, so NDWI takes its zero-denominator branch and NDVI
\* sits on the lower end of its range
C5_Witness ==
    \E s \in sample :
        /\ px = [r |-> 255, g |-> 0, b |-> 0]
        /\ px.g + s.nir = 0 /\ s.ndwi = Num(0) /\ s.ndvi = Num(-1)

----------------------------------------------------------------------------
(* Zonal Aggregator: SpectralProcessor.getPixel, calculateZoneStats *)

\* the pixel at (x, y); the alpha channel is never read by the engine
getPixel(x, y) == imageData[(y * width + x) + 1]

RECURSIVE SumQ(_, _)
\* the sum of f[p] over the pixels p of S
SumQ(f, S) ==
    IF S = {} THEN Num(0)
    ELSE LET p == CHOOSE q \in S : TRUE
         IN  AddQ(f[p], SumQ(f, S \ {p}))

GridSize(zones) == IF zones <= 4 THEN 2 ELSE 3

\* a cell that runs on to the raster edge
ZoneEnd_toEdge(start, size, limit) == limit

\* the exclusive end of a cell that starts at start: Math.min(start + size, limit)
ZoneEnd(start, size, limit) == Min(start + size, limit)

\* the pixels the loops of lines 310-311 visit for cell (zx, zy)
ZonePixels(zx, zy, gridSize) ==
    LET zoneWidth  == width \div gridSize
        zoneHeight == height \div gridSize
        startX == zx * zoneWidth
        startY == zy * zoneHeight
        endX == ZoneEnd(startX, zoneWidth, width)
        endY == ZoneEnd(startY, zoneHeight, height)
    IN  {<<x, y>> : x \in startX .. (endX - 1), y \in startY .. (endY - 1)}

\* Math.round(Math.max(0, Math.min(100,
\*     (avgNDVI+1)/2*60 + (avgNDWI+1)/2*25 + (avgVARI+1)/2*15)))
\* a score in which the VARI term is subtracted
HealthScore_variSubtracted(avgNDVI, avgNDWI, avgVARI) ==
    MathRound(MathMax(Num(0), MathMin(Num(100),
        AddQ(AddQ(MulQ(AddQ(avgNDVI, Num(1)), Num(30)),
                  MulQ(AddQ(avgNDWI, Num(1)), Quot(25, 2))),
             MulQ(AddQ(avgVARI, Num(1)), Quot(-15, 2))))))

HealthScore(avgNDVI, avgNDWI, avgVARI) ==
    MathRound(MathMax(Num(0), MathMin(Num(100),
        AddQ(AddQ(MulQ(AddQ(avgNDVI, Num(1)), Num(30)),
                  MulQ(AddQ(avgNDWI, Num(1)), Quot(25, 2))),
             MulQ(AddQ(avgVARI, Num(1)), Quot(15, 2))))))

\* one iteration of the zy/zx loops: the record pushed for cell (zx, zy).
\* avgNDVI, avgNDWI, avgVARI and stressPercentage are stored as toFixed
\* strings; the model keeps the number each string reads back as.
ZoneStat(zx, zy, gridSize) ==
    LET cells == ZonePixels(zx, zy, gridSize)
        ndviOf == [p \in cells |->
                     calculateNDVI(getPixel(p[1], p[2]).r, getPixel(p[1], p[2]).g,
                                   getPixel(p[1], p[2]).b)]
        ndwiOf == [p \in cells |->
                     calculateNDWI(getPixel(p[1], p[2]).r, getPixel(p[1], p[2]).g,
                                   getPixel(p[1], p[2]).b)]
        variOf == [p \in cells |->
                     calculateVARI(getPixel(p[1], p[2]).r, getPixel(p[1], p[2]).g,
                                   getPixel(p[1], p[2]).b)]
        pixelCount == Cardinality(cells)
        stressPixels == Cardinality({p \in cells :
                            Lt(ndviOf[p], Quot(3, 10)) \/ Lt(ndwiOf[p], Quot(-2, 10))})
        avgNDVI == DivQ(SumQ(ndviOf, cells), pixelCount)
        avgNDWI == DivQ(SumQ(ndwiOf, cells), pixelCount)
        avgVARI == DivQ(SumQ(variOf, cells), pixelCount)
        stressPercentage == MulQ(DivQ(Num(stressPixels), pixelCount), Num(100))
    IN  [zoneIndex        |-> zy * gridSize + zx,
         row              |-> zy,
         col              |-> zx,
         avgNDVI          |-> ToFixed(avgNDVI, 3),
         avgNDWI          |-> ToFixed(avgNDWI, 3),
         avgVARI          |-> ToFixed(avgVARI, 3),
         healthScore      |-> HealthScore(avgNDVI, avgNDWI, avgVARI),
         stressPercentage |-> ToFixed(stressPercentage, 1),
         waterStress      |-> Lt(avgNDWI, Quot(-1, 10)),
         vegetationStress |-> Lt(avgNDVI, Quot(3, 10))]

\* cells are pushed row by row: index k (0-based) is cell (k % g, k \div g)
calculateZoneStats(zones) ==
    LET gridSize == GridSize(zones)
    IN  [k \in 1 .. gridSize * gridSize |->
            ZoneStat((k - 1) % gridSize, (k - 1) \div gridSize, gridSize)]

ZoneVisits(zones) ==
    LET gridSize == GridSize(zones)
    IN  [k \in 1 .. gridSize * gridSize |->
            ZonePixels((k - 1) % gridSize, (k - 1) \div gridSize, gridSize)]

----------------------------------------------------------------------------
(* Composite Renderer: SpectralProcessor.generateCIR .. stressToColor *)

RGB(r, g, b) == [r |-> r, g |-> g, b |-> b]

ndviToColor(ndvi) ==
    IF Lt(ndvi, Quot(-2, 10)) THEN RGB(0, 0, 150)
    ELSE IF Lt(ndvi, Num(0)) THEN RGB(139, 90, 43)
    ELSE IF Lt(ndvi, Quot(2, 10)) THEN RGB(255, 255, 150)
    ELSE IF Lt(ndvi, Quot(4, 10)) THEN RGB(192, 255, 62)
    ELSE IF Lt(ndvi, Quot(6, 10)) THEN RGB(76, 187, 23)
    ELSE RGB(0, 100, 0)

ndwiToColor(ndwi) ==
    IF Gt(ndwi, Quot(3, 10)) THEN RGB(0, 100, 255)
    ELSE IF Gt(ndwi, Quot(1, 10)) THEN RGB(0, 200, 200)
    ELSE IF Gt(ndwi, Quot(-1, 10)) THEN RGB(100, 200, 100)
    ELSE IF Gt(ndwi, Quot(-3, 10)) THEN RGB(255, 200, 0)
    ELSE RGB(255, 50, 0)

stressToColor(score) ==
    IF Gt(score, Quot(8, 10)) THEN RGB(0, 150, 0)
    ELSE IF Gt(score, Quot(6, 10)) THEN RGB(100, 200, 50)
    ELSE IF Gt(score, Quot(4, 10)) THEN RGB(255, 200, 0)
    ELSE IF Gt(score, Quot(2, 10)) THEN RGB(255, 100, 0)
    ELSE RGB(200, 0, 0)

\* (q + 1) / 2
HalfOfPlusOne(q) == MulQ(AddQ(q, Num(1)), Quot(1, 2))

\* the value Math.round leaves in a channel: an integer
Channel(q) == MathRound(q)[1]

\* tempCanvas.toDataURL('image/png') of an output buffer: PNG is lossless and
\* every output pixel is opaque, so the URL determines and is determined by
\* the buffer's size and pixels
imageDataToDataURL(output) ==
    [mime |-> "image/png", width |-> width, height |-> height, data |-> output]

\* the output buffer after the y/x loops have set every pixel to Color(pixel)
Rendered(Color(_)) == [i \in 1 .. width * height |-> Color(imageData[i])]

generateCIR ==
    imageDataToDataURL(
        Rendered(LAMBDA pixel :
            RGB(simulateNIR(pixel.r, pixel.g, pixel.b), pixel.r, pixel.g)))

generateNDVIMap ==
    imageDataToDataURL(
        Rendered(LAMBDA pixel : ndviToColor(calculateNDVI(pixel.r, pixel.g, pixel.b))))

generateNDWIMap ==
    imageDataToDataURL(
        Rendered(LAMBDA pixel : ndwiToColor(calculateNDWI(pixel.r, pixel.g, pixel.b))))

StressScore(pixel) ==
    AddQ(AddQ(MulQ(HalfOfPlusOne(calculateNDVI(pixel.r, pixel.g, pixel.b)), Quot(5, 10)),
              MulQ(HalfOfPlusOne(calculateVARI(pixel.r, pixel.g, pixel.b)), Quot(3, 10))),
         MulQ(HalfOfPlusOne(calculateExG(pixel.r, pixel.g, pixel.b)), Quot(2, 10)))

generateStressMap ==
    imageDataToDataURL(Rendered(LAMBDA pixel : stressToColor(StressScore(pixel))))

NIRColor(pixel) ==
    LET ndvi == calculateNDVI(pixel.r, pixel.g, pixel.b)
        health == MathMin(Num(1), HalfOfPlusOne(ndvi))
    IN  IF Gt(ndvi, Quot(2, 10))
        THEN RGB(Channel(MulQ(Num(255), health)),
                 Channel(AddQ(Num(100), MulQ(Num(155), health))),
                 Channel(MulQ(Num(50), AddQ(Num(1), MulQ(Num(-1), health)))))
        ELSE IF Gt(ndvi, Quot(-1, 10)) THEN RGB(180, 140, 100)
        ELSE RGB(50, 80, 150)

generateNIRComposite == imageDataToDataURL(Rendered(NIRColor))

sampleStep == 10

\* the pixels of the stride-10 sampling loops
SamplePixels ==
    {p \in {<<x, y>> : x \in 0 .. (width - 1), y \in 0 .. (height - 1)} :
        p[1] % sampleStep = 0 /\ p[2] % sampleStep = 0}

generateFullAnalysis ==
    LET ndviOf == [p \in SamplePixels |->
                     calculateNDVI(getPixel(p[1], p[2]).r, getPixel(p[1], p[2]).g,
                                   getPixel(p[1], p[2]).b)]
        ndwiOf == [p \in SamplePixels |->
                     calculateNDWI(getPixel(p[1], p[2]).r, getPixel(p[1], p[2]).g,
                                   getPixel(p[1], p[2]).b)]
        sampleCount == Cardinality(SamplePixels)
        meanNDVI == DivQ(SumQ(ndviOf, SamplePixels), sampleCount)
        meanNDWI == DivQ(SumQ(ndwiOf, SamplePixels), sampleCount)
    IN  [composites |->
            [cir         |-> generateCIR,
             ndvi        |-> generateNDVIMap,
             ndwi        |-> generateNDWIMap,
             stress      |-> generateStressMap,
             nirEnhanced |-> generateNIRComposite],
         statistics |->
            [avgNDVI       |-> ToFixed(meanNDVI, 3),
             avgNDWI       |-> ToFixed(meanNDWI, 3),
             overallHealth |-> MathRound(MulQ(HalfOfPlusOne(meanNDVI), Num(100)))],
         zoneStats |-> calculateZoneStats(4)]

----------------------------------------------------------------------------
(* Specification SpecZone: calculateZoneStats on a decoded raster *)

\* rasters of 1..MaxDim by 1..MaxDim pixels
MaxDim == 3

\* a vegetated pixel (NDVI 3/7, NDWI 0, VARI 1/2) and a water-stressed one
\* (NDVI 1/4, NDWI -2/5, VARI 1/9); neither is a rounding tie of simulateNIR
Palette == {[r |-> 102, g |-> 255, b |-> 51], [r |-> 42, g |-> 30, b |-> 180]}

InitZone ==
    /\ BandIdle
    /\ PlanIdle
    /\ MergeIdle
    /\ EyeIdle
    /\ CallIdle
    /\ width \in 1 .. MaxDim
    /\ height \in 1 .. MaxDim
    /\ imageData \in [1 .. width * height -> Palette]
    /\ zonesArg \in {4, 9}
    /\ zoneOut = {}
    /\ visited = <<>>

CalcZoneStats ==
    /\ zoneOut = {}
    /\ zoneOut' = {calculateZoneStats(zonesArg)}
    /\ visited' = ZoneVisits(zonesArg)
    /\ UNCHANGED <<callVars, bandVars, planVars, mergeVars, eyeVars, width, height, imageData, zonesArg>>

NextZone == CalcZoneStats

SpecZone == InitZone /\ [][NextZone]_vars

----------------------------------------------------------------------------
(* Claims on the zonal aggregator *)

AllPixels == {<<x, y>> : x \in 0 .. (width - 1), y \in 0 .. (height - 1)}

\* C1: for every raster and either grid size, every pixel (x, y) of the
\* raster lies inside the rectangle of some zone of calculateZoneStats (the
\* last column and row of zones extend to the raster edge).
C1_EveryPixelInAZone ==
    zoneOut # {} =>
        \A p \in AllPixels : \E k \in DOMAIN visited : p \in visited[k]

\* C2: for every raster with width >= 1 and height >= 1, every zone returned
\* by calculateZoneStats has an integer healthScore in 0..100 and a
\* stressPercentage in 0..100; neither is NaN.
C2_ScoresInRange ==
    \A zs \in zoneOut : \A k \in DOMAIN zs :
        /\ InRange(zs[k].healthScore, 0, 100)
        /\ zs[k].healthScore[2] = 1
        /\ InRange(zs[k].stressPercentage, 0, 100)

----------------------------------------------------------------------------
(* Strings.  A string whose characters the engine inspects is the sequence *)
(* of its characters; other strings are TLA+ strings.                      *)

UpperCase == <<"A", "B", "C", "D", "E", "F", "G", "H", "I", "J", "K", "L", "M",
               "N", "O", "P", "Q", "R", "S", "T", "U", "V", "W", "X", "Y", "Z">>

LowerCase == <<"a", "b", "c", "d", "e", "f", "g", "h", "i", "j", "k", "l", "m",
               "n", "o", "p", "q", "r", "s", "t", "u", "v", "w", "x", "y", "z">>

\* the lower-case letter of each upper-case one
LowerOf ==
    [c \in {UpperCase[i] : i \in DOMAIN UpperCase} |->
        LowerCase[CHOOSE i \in DOMAIN UpperCase : UpperCase[i] = c]]

LowerChar(c) == IF c \in DOMAIN LowerOf THEN LowerOf[c] ELSE c

\* String.prototype.toLowerCase
toLowerCase(t) == [i \in 1 .. Len(t) |-> LowerChar(t[i])]

\* String.prototype.substring(0, n)
substring0(t, n) == SubSeq(t, 1, Min(n, Len(t)))

\* String.prototype.includes
includes(hay, needle) ==
    \E i \in 0 .. (Len(hay) - Len(needle)) :
        SubSeq(hay, i + 1, i + Len(needle)) = needle

RECURSIVE join(_, _)
\* Array.prototype.join
join(parts, sep) ==
    IF parts = <<>> THEN <<>>
    ELSE IF Len(parts) = 1 THEN parts[1]
    ELSE parts[1] \o sep \o join(Tail(parts), sep)

Digit == <<"1", "2", "3", "4", "5", "6", "7", "8", "9">>

\* `Z${i + 1}` for the 0-based index i
ZoneId(i) == <<"Z", Digit[i + 1]>>

----------------------------------------------------------------------------
(* Recommendation Synthesizer: EyeModule.generateActionPlan *)

UrgentIrrigationText == <<"U", "r", "g", "e", "n", "t", " ", "i", "r", "r", "i", "g", "a", "t", "i", "o", "n", " ", "f", "o", "r", " ", "z", "o", "n", "e", "s", ":", " ">>

FoliarText == <<"A", "p", "p", "l", "y", " ", "f", "o", "l", "i", "a", "r", " ", "n", "u", "t", "r", "i", "e", "n", "t", "s", " ", "t", "o", ":", " ">>

InspectionText == <<"C", "o", "n", "d", "u", "c", "t", " ", "f", "i", "e", "l", "d", " ", "i", "n", "s", "p", "e", "c", "t", "i", "o", "n", " ", "o", "f", " ", "f", "l", "a", "g", "g", "e", "d", " ", "z", "o", "n", "e", "s">>

CommaSpace == <<",", " ">>

PrefixLen == 20

\* item.action?.toLowerCase()?.substring(0, 20) || ''
ActionPrefix(item) ==
    IF "action" \in DOMAIN item
    THEN substring0(toLowerCase(item.action), PrefixLen)
    ELSE <<>>

\* a duplicate test that compares the texts as written
AlreadyPlanned_caseSensitive(plan, item) ==
    \E k \in DOMAIN plan :
        includes(plan[k].action,
                 IF "action" \in DOMAIN item THEN substring0(item.action, PrefixLen) ELSE <<>>)

\* plan.find(p => p.action.toLowerCase().includes(prefix)) is defined
AlreadyPlanned(plan, item) ==
    \E k \in DOMAIN plan : includes(toLowerCase(plan[k].action), ActionPrefix(item))

RECURSIVE AppendAiItems(_, _)
\* aiPlan.forEach: push { ...item, priority: plan.length + 1 } unless found
AppendAiItems(plan, items) ==
    IF items = <<>> THEN plan
    ELSE LET item == Head(items)
             next == IF AlreadyPlanned(plan, item) THEN plan
                     ELSE Append(plan, [priority |-> Len(plan) + 1] @@ item)
         IN  AppendAiItems(next, Tail(items))

\* a plan in which the external items come before the inspection item
generateActionPlan_inspectionLast(zones, aiPlan) ==
    LET items == IF aiPlan.kind = "array" THEN aiPlan.items ELSE <<>>
        inspection == [priority |-> 1,
                       action |-> InspectionText,
                       deadline |-> "Within 48 hours",
                       expectedImprovement |-> "Early detection of hidden issues"]
        plan == AppendAiItems(<<inspection>>, items)
    IN  Tail(plan) \o <<Head(plan)>>

generateActionPlan(zones, aiPlan) ==
    LET criticalZones == SelectSeq(zones, LAMBDA z : z.priority = "Critical")
        highZones == SelectSeq(zones, LAMBDA z : z.priority = "High")
        ids(zs) == join([k \in 1 .. Len(zs) |-> zs[k].id], CommaSpace)
        plan1 == IF Len(criticalZones) > 0
                 THEN <<[priority |-> 1,
                         action |-> UrgentIrrigationText \o ids(criticalZones),
                         deadline |-> "Within 24 hours",
                         expectedImprovement |-> "+15-20 NDWI points in 48h"]>>
                 ELSE <<>>
        plan2 == IF Len(highZones) > 0
                 THEN Append(plan1,
                        [priority |-> 2,
                         action |-> FoliarText \o ids(highZones),
                         deadline |-> "Within 3 days",
                         expectedImprovement |-> "+10-15 NDVI points in 7 days"])
                 ELSE plan1
        plan3 == Append(plan2,
                        [priority |-> Len(plan2) + 1,
                         action |-> InspectionText,
                         deadline |-> "Within 48 hours",
                         expectedImprovement |-> "Early detection of hidden issues"])
        \* aiPlan = [] by default when undefined; null and [] skip the loop
        items == IF aiPlan.kind = "array" THEN aiPlan.items ELSE <<>>
    IN  AppendAiItems(plan3, items)

----------------------------------------------------------------------------
(* Specification SpecPlan: generateActionPlan on a zone list and an         *)
(* external action list                                                    *)

Priorities == {"Critical", "High", "Medium", "Low"}

\* the zones of a 2x2 grid; the priority of each is the computed one or the
\* one the external assessment's zone carries, so any of the four
PlanZoneLists ==
    {[k \in 1 .. 4 |-> [id |-> ZoneId(k - 1), priority |-> pr[k]]] :
        pr \in [1 .. 4 -> Priorities]}

\* external action items: a duplicate of the inspection item by its first 20
\* characters, the same in capitals, a short new action, a longer action
\* that contains the short one, and an item without an action text
AiItems ==
    {[action |-> <<"C", "o", "n", "d", "u", "c", "t", " ", "f", "i", "e", "l", "d", " ", "i", "n", "s", "p", "e", "c", "t", "i", "o", "n", " ", "a", "n", "d", " ", "s", "o", "i", "l", " ", "t", "e", "s", "t">>,
      deadline |-> "This week"],
     [action |-> <<"C", "O", "N", "D", "U", "C", "T", " ", "F", "I", "E", "L", "D", " ", "I", "N", "S", "P", "E", "C", "T", "I", "O", "N">>],
     [action |-> <<"A", "p", "p", "l", "y", " ", "m", "u", "l", "c", "h">>,
      priority |-> 7],
     [action |-> <<"A", "p", "p", "l", "y", " ", "m", "u", "l", "c", "h", " ", "t", "o", " ", "r", "e", "t", "a", "i", "n", " ", "s", "o", "i", "l", " ", "m", "o", "i", "s", "t", "u", "r", "e">>],
     [deadline |-> "Soon"]}

\* external action lists hold at most MaxAiPlan items
MaxAiPlan == 2

RECURSIVE SeqsUpTo(_, _)
SeqsUpTo(S, n) ==
    IF n = 0 THEN {<<>>}
    ELSE LET shorter == SeqsUpTo(S, n - 1)
         IN  shorter \cup {Append(q, x) : q \in {t \in shorter : Len(t) = n - 1}, x \in S}

InitPlan ==
    /\ BandIdle
    /\ ZoneIdle
    /\ MergeIdle
    /\ EyeIdle
    /\ CallIdle
    /\ planZones \in PlanZoneLists
    /\ planAi \in {[kind |-> "undefined"], [kind |-> "null"]}
                  \cup {[kind |-> "array", items |-> q] : q \in SeqsUpTo(AiItems, MaxAiPlan)}
    /\ planOut = {}

GenerateActionPlan ==
    /\ planOut = {}
    /\ planOut' = {generateActionPlan(planZones, planAi)}
    /\ UNCHANGED <<callVars, bandVars, zoneVars, mergeVars, eyeVars, planZones, planAi>>

NextPlan == GenerateActionPlan

SpecPlan == InitPlan /\ [][NextPlan]_vars

----------------------------------------------------------------------------
(* Claims on the action plan *)

\* C8: for every list of zones and every external action list, the plan of
\* generateActionPlan is numbered sequentially: the item at position k
\* (1-based) has priority k.
C8_SequentialPriorities ==
    \A plan \in planOut : \A k \in DOMAIN plan : plan[k].priority = k

----------------------------------------------------------------------------
(* Health Classifier: EyeModule.getColorSignature .. findChlorophyllDeficiency *)

Ge(a, b) == Le(b, a)

getColorSignature(zone) ==
    LET ndvi == zone.avgNDVI
        ndwi == zone.avgNDWI
    IN  IF Gt(ndvi, Quot(5, 10)) /\ Gt(ndwi, Num(0))
        THEN "Bright red in CIR - Dense healthy vegetation"
        ELSE IF Gt(ndvi, Quot(3, 10)) /\ Gt(ndwi, Quot(-1, 10))
        THEN "Pink-red in CIR - Moderate vegetation"
        ELSE IF Gt(ndvi, Quot(1, 10)) /\ Lt(ndwi, Quot(-1, 10))
        THEN "Pale pink in CIR - Stressed vegetation"
        ELSE IF Lt(ndvi, Quot(1, 10))
        THEN "Brown/tan in CIR - Sparse or stressed vegetation"
        ELSE "Variable - Mixed vegetation patterns"

\* a message is the tuple of its text and the values interpolated into it
detectZoneIssues(zone) ==
    (IF zone.waterStress THEN <<<<"Water stress detected (low NDWI)">>>> ELSE <<>>)
    \o (IF zone.vegetationStress
        THEN <<<<"Vegetation stress detected (low NDVI)">>>> ELSE <<>>)
    \o (IF Lt(zone.avgNDVI, Quot(2, 10))
        THEN <<<<"Very low chlorophyll activity">>>> ELSE <<>>)
    \o (IF Lt(zone.avgNDWI, Quot(-3, 10))
        THEN <<<<"Severe water deficiency">>>> ELSE <<>>)
    \o (IF Gt(zone.stressPercentage, Num(40))
        THEN <<<<zone.stressPercentage, "% of zone showing stress">>>> ELSE <<>>)

calculateIrrigationNeed(zone) ==
    LET ndwi == zone.avgNDWI
    IN  IF Lt(ndwi, Quot(-3, 10)) THEN "Critical - Urgent"
        ELSE IF Lt(ndwi, Quot(-1, 10)) THEN "High - Immediate"
        ELSE IF Lt(ndwi, Quot(1, 10)) THEN "Moderate - Scheduled"
        ELSE "Low - Monitor"

calculateFertilizationNeed(zone) ==
    LET ndvi == zone.avgNDVI
    IN  IF Lt(ndvi, Quot(2, 10)) THEN "High - Nitrogen deficiency likely"
        ELSE IF Lt(ndvi, Quot(35, 100)) THEN "Moderate - Consider supplementation"
        ELSE "Low - Adequate"

\* the same rules with the second tested before the first
calculatePriority_highFirst(zone) ==
    IF Lt(zone.healthScore, Num(60)) \/ zone.vegetationStress THEN "High"
    ELSE IF Lt(zone.healthScore, Num(40)) \/ zone.waterStress THEN "Critical"
    ELSE IF Lt(zone.healthScore, Num(75)) THEN "Medium"
    ELSE "Low"

calculatePriority(zone) ==
    IF Lt(zone.healthScore, Num(40)) \/ zone.waterStress THEN "Critical"
    ELSE IF Lt(zone.healthScore, Num(60)) \/ zone.vegetationStress THEN "High"
    ELSE IF Lt(zone.healthScore, Num(75)) THEN "Medium"
    ELSE "Low"

getStatusText(score) ==
    IF Ge(score, Num(80)) THEN "Excellent Health"
    ELSE IF Ge(score, Num(60)) THEN "Good with Minor Issues"
    ELSE IF Ge(score, Num(40)) THEN "Moderate Stress Detected"
    ELSE IF Ge(score, Num(20)) THEN "Poor - Action Required"
    ELSE "Critical - Immediate Action"

interpretNDVI(ndvi) ==
    IF Gt(ndvi, Quot(6, 10))
    THEN "Excellent vegetation vigor - Dense, healthy canopy detected"
    ELSE IF Gt(ndvi, Quot(4, 10)) THEN "Good vegetation health - Active photosynthesis"
    ELSE IF Gt(ndvi, Quot(2, 10))
    THEN "Moderate vegetation - Some stress indicators present"
    ELSE IF Gt(ndvi, Num(0))
    THEN "Poor vegetation - Significant stress or sparse coverage"
    ELSE "Very low/no vegetation - Bare soil or severe damage"

interpretNDWI(ndwi) ==
    IF Gt(ndwi, Quot(2, 10)) THEN "High water content - Well-hydrated vegetation"
    ELSE IF Gt(ndwi, Num(0)) THEN "Adequate moisture - No immediate water stress"
    ELSE IF Gt(ndwi, Quot(-2, 10))
    THEN "Mild water stress - Monitor and prepare irrigation"
    ELSE "Severe water stress - Immediate irrigation recommended"

estimateChlorophyll(ndvi) ==
    IF Gt(ndvi, Quot(5, 10)) THEN "High"
    ELSE IF Gt(ndvi, Quot(3, 10)) THEN "Moderate"
    ELSE IF Gt(ndvi, Quot(1, 10)) THEN "Low"
    ELSE "Very Low"

\* the indices 1..Len(zs) whose element passes Test, in increasing order
IndicesWhere(zs, Test(_)) ==
    SelectSeq([k \in 1 .. Len(zs) |-> k], LAMBDA k : Test(zs[k]))

\* zs.reduce((sum, z) => sum + Value(z), 0)
SumOf(zs, Value(_)) ==
    LET f == [k \in 1 .. Len(zs) |-> Value(zs[k])]
    IN  SumQ(f, 1 .. Len(zs))

getChlorophyllDistribution(zoneStats) ==
    LET highZones == Len(SelectSeq(zoneStats, LAMBDA z : Gt(z.avgNDVI, Quot(4, 10))))
        total == Len(zoneStats)
        percentage == MathRound(MulQ(DivQ(Num(highZones), total), Num(100)))
    IN  <<percentage, "% of field shows healthy chlorophyll levels">>

findNDVIAnomalies(zoneStats) ==
    LET avgNDVI == DivQ(SumOf(zoneStats, LAMBDA z : z.avgNDVI), Len(zoneStats))
        hits == IndicesWhere(zoneStats,
                    LAMBDA z : Lt(z.avgNDVI, AddQ(avgNDVI, Quot(-15, 100))))
    IN  [j \in 1 .. Len(hits) |->
            <<"Zone ", hits[j], ": NDVI ",
              ToFixed(MulQ(zoneStats[hits[j]].avgNDVI, Num(100)), 0),
              "% below field average">>]

findWaterStressAreas(zoneStats) ==
    LET hits == SelectSeq(zoneStats, LAMBDA z : z.waterStress)
    IN  [j \in 1 .. Len(hits) |->
            <<"Zone ", hits[j].zoneIndex + 1, ": NDWI ", hits[j].avgNDWI,
              " indicates water deficit">>]

findChlorophyllDeficiency(zoneStats) ==
    LET hits == SelectSeq(zoneStats, LAMBDA z : Lt(z.avgNDVI, Quot(25, 100)))
    IN  [j \in 1 .. Len(hits) |-> <<"Zone ", hits[j].zoneIndex + 1>>]

----------------------------------------------------------------------------
(* Recommendation Synthesizer: generateEarlyWarnings,                      *)
(* generateResourceRecommendations, mergeSpectralWithAI                    *)

\* an optional argument or property: absent, null, or an array
Undefined == [kind |-> "undefined"]

ArrayArg(items) == [kind |-> "array", items |-> items]

\* obj.key as an argument, for a key that holds an array when present
ArgOf(obj, key) == IF key \in DOMAIN obj THEN ArrayArg(obj[key]) ELSE Undefined

\* a water stress warning whose severity ignores avgNDWI
WaterWarning_alwaysHigh(zone) ==
    [type |-> "Water Stress",
     severity |-> "High",
     location |-> <<"Zone ", zone.zoneIndex + 1>>,
     daysToVisible |-> "May become visible in 3-5 days",
     action |-> "Schedule immediate irrigation",
     detectedBy |-> "NDWI analysis"]

WaterWarning(zone) ==
    [type |-> "Water Stress",
     severity |-> IF Lt(zone.avgNDWI, Quot(-3, 10)) THEN "Critical" ELSE "High",
     location |-> <<"Zone ", zone.zoneIndex + 1>>,
     daysToVisible |-> "May become visible in 3-5 days",
     action |-> "Schedule immediate irrigation",
     detectedBy |-> "NDWI analysis"]

NutrientWarning(zone) ==
    [type |-> "Nutrient Deficiency",
     severity |-> "Moderate",
     location |-> <<"Zone ", zone.zoneIndex + 1>>,
     daysToVisible |-> "May become visible in 5-7 days",
     action |-> "Check soil nutrients, consider foliar application",
     detectedBy |-> "NDVI analysis"]

RECURSIVE ZoneWarnings(_)
\* the pushes of zoneStats.forEach, in zone order
ZoneWarnings(zoneStats) ==
    IF zoneStats = <<>> THEN <<>>
    ELSE LET zone == Head(zoneStats)
         IN  (IF zone.waterStress /\ Gt(zone.stressPercentage, Num(30))
              THEN <<WaterWarning(zone)>> ELSE <<>>)
             \o (IF zone.vegetationStress /\ ~zone.waterStress
                 THEN <<NutrientWarning(zone)>> ELSE <<>>)
             \o ZoneWarnings(Tail(zoneStats))

\* warnings = [...(aiWarnings || [])], then the pushes
generateEarlyWarnings(zoneStats, aiWarnings) ==
    (IF aiWarnings.kind = "array" THEN aiWarnings.items ELSE <<>>)
    \o ZoneWarnings(zoneStats)

\* need.includes(word), for the need texts the engine and the external
\* assessment produce
NeedIncludes(need, word) ==
    word \in (CASE need = "Critical - Urgent" -> {"Critical"}
                [] need = "High - Immediate" -> {"High"}
                [] need = "Moderate - Scheduled" -> {"Moderate"}
                [] need = "High - Nitrogen deficiency likely" -> {"High"}
                [] need = "Moderate - Consider supplementation" -> {"Moderate"}
                [] OTHER -> {})

generateResourceRecommendations(zones) ==
    LET irrigationUrgent ==
            SelectSeq(zones, LAMBDA z : NeedIncludes(z.irrigationNeed, "Critical")
                                        \/ NeedIncludes(z.irrigationNeed, "High"))
        irrigationScheduled ==
            SelectSeq(zones, LAMBDA z : NeedIncludes(z.irrigationNeed, "Moderate"))
        fertilizerNeeded ==
            SelectSeq(zones, LAMBDA z : NeedIncludes(z.fertilizationNeed, "High")
                                        \/ NeedIncludes(z.fertilizationNeed, "Moderate"))
        inspection ==
            SelectSeq(zones, LAMBDA z : z.priority = "Critical" \/ z.priority = "High")
        idsOf(zs) == [k \in 1 .. Len(zs) |-> zs[k].id]
    IN  [irrigation |->
            [immediateZones |-> idsOf(irrigationUrgent),
             scheduledZones |-> idsOf(irrigationScheduled),
             applicationRate |-> IF Len(irrigationUrgent) > 0
                                 THEN "25-30mm recommended" ELSE "Standard rate",
             timing |-> "Early morning (5-7 AM) or evening (6-8 PM)",
             method |-> "Drip irrigation preferred for targeted application"],
         fertilization |->
            [recommendations |->
                [k \in 1 .. Len(fertilizerNeeded) |->
                    [zone |-> fertilizerNeeded[k].id,
                     fertilizer |->
                        IF NeedIncludes(fertilizerNeeded[k].fertilizationNeed, "High")
                        THEN "Nitrogen-rich (46-0-0)" ELSE "Balanced NPK (20-20-20)",
                     rate |->
                        IF NeedIncludes(fertilizerNeeded[k].fertilizationNeed, "High")
                        THEN "150 kg/ha" ELSE "100 kg/ha",
                     timing |-> "Within 3-5 days"]]],
         pestControl |->
            [inspectionZones |-> idsOf(inspection),
             reason |-> "Stressed plants more susceptible to pest/disease",
             preventiveMeasures |->
                <<"Scout for early pest signs in stressed zones",
                  "Apply preventive fungicide to vulnerable areas",
                  "Install pest traps near zone boundaries">>]]

zoneNames == <<<<"NW (Z1)">>, <<"NE (Z2)">>, <<"SW (Z3)">>, <<"SE (Z4)">>>>

NoKeys == [k \in {} |-> 0]

\* a spread in which the first operand's value stays where both have the key
SpreadExternalFirst(base, over) == base @@ over

\* { ...base, ...over }: the keys of both, over's value where both have one
Spread(base, over) == over @@ base


\* a record overlaid with the first external zone whatever its index
EnhancedZone_firstExternal(aiResult, zone, i) ==
    LET aiZone == IF "zones" \in DOMAIN aiResult /\ 1 \in DOMAIN aiResult.zones
                  THEN aiResult.zones[1] ELSE NoKeys
    IN  Spread(
          [id |-> ZoneId(i),
           name |-> IF i + 1 \in DOMAIN zoneNames
                    THEN zoneNames[i + 1] ELSE <<"Zone ", i + 1>>,
           healthScore |-> zone.healthScore,
           ndvi |-> zone.avgNDVI,
           ndwi |-> zone.avgNDWI,
           vari |-> zone.avgVARI,
           stressPercentage |-> zone.stressPercentage,
           waterStress |-> zone.waterStress,
           vegetationStress |-> zone.vegetationStress,
           colorSignature |-> getColorSignature(zone),
           issues |-> detectZoneIssues(zone),
           irrigationNeed |-> calculateIrrigationNeed(zone),
           fertilizationNeed |-> calculateFertilizationNeed(zone),
           priority |-> calculatePriority(zone)],
          aiZone)

\* the record built for zoneStats[i + 1] (i is the 0-based index)
EnhancedZone(aiResult, zone, i) ==
    LET aiZone == IF "zones" \in DOMAIN aiResult /\ i + 1 \in DOMAIN aiResult.zones
                  THEN aiResult.zones[i + 1] ELSE NoKeys
    IN  Spread(
          [id |-> ZoneId(i),
           name |-> IF i + 1 \in DOMAIN zoneNames
                    THEN zoneNames[i + 1] ELSE <<"Zone ", i + 1>>,
           healthScore |-> zone.healthScore,
           ndvi |-> zone.avgNDVI,
           ndwi |-> zone.avgNDWI,
           vari |-> zone.avgVARI,
           stressPercentage |-> zone.stressPercentage,
           waterStress |-> zone.waterStress,
           vegetationStress |-> zone.vegetationStress,
           colorSignature |-> getColorSignature(zone),
           issues |-> detectZoneIssues(zone),
           irrigationNeed |-> calculateIrrigationNeed(zone),
           fertilizationNeed |-> calculateFertilizationNeed(zone),
           priority |-> calculatePriority(zone)],
          aiZone)

EnhancedZones(aiResult, spectralArg) ==
    [k \in 1 .. Len(spectralArg.zoneStats) |->
        EnhancedZone(aiResult, spectralArg.zoneStats[k], k - 1)]

\* aiResult.healthMap?.[key] || fallback
HealthMapField(aiResult, key, fallback) ==
    IF "healthMap" \in DOMAIN aiResult /\ key \in DOMAIN aiResult.healthMap
    THEN aiResult.healthMap[key] ELSE fallback

AnalysisConfidenceNoBase == MathRound(Quot(rand, 10))[1]

\* Math.round(85 + Math.random() * 10)
AnalysisConfidence == MathRound(AddQ(Num(85), Quot(rand, 10)))[1]

\* the object literal of the return statement, before ...aiResult
ComputedResult(aiResult, spectralArg) ==
    LET enhancedZones == EnhancedZones(aiResult, spectralArg)
        overallHealth ==
            MathRound(DivQ(SumOf(enhancedZones, LAMBDA z : z.healthScore),
                           Len(enhancedZones)))
        stats == spectralArg.statistics
    IN  [healthMap |->
            [overallScore |-> overallHealth,
             overallStatus |-> getStatusText(overallHealth),
             fieldSize |-> HealthMapField(aiResult, "fieldSize", "Analyzed"),
             cropType |-> HealthMapField(aiResult, "cropType", "Detected from imagery"),
             growthStage |-> HealthMapField(aiResult, "growthStage", "Vegetative"),
             analysisConfidence |-> AnalysisConfidence,
             spectralMetrics |-> [avgNDVI |-> stats.avgNDVI, avgNDWI |-> stats.avgNDWI]],
         zones |-> enhancedZones,
         spectralAnalysis |->
            [vegetationIndex |->
                [score |-> MathRound(MulQ(HalfOfPlusOne(stats.avgNDVI), Num(100))),
                 rawValue |-> stats.avgNDVI,
                 interpretation |-> interpretNDVI(stats.avgNDVI),
                 anomalies |-> findNDVIAnomalies(spectralArg.zoneStats)],
             waterStressIndex |->
                [score |-> MathRound(MulQ(HalfOfPlusOne(stats.avgNDWI), Num(100))),
                 rawValue |-> stats.avgNDWI,
                 interpretation |-> interpretNDWI(stats.avgNDWI),
                 criticalAreas |-> findWaterStressAreas(spectralArg.zoneStats)],
             chlorophyllContent |->
                [level |-> estimateChlorophyll(stats.avgNDVI),
                 distribution |-> getChlorophyllDistribution(spectralArg.zoneStats),
                 deficiencyZones |-> findChlorophyllDeficiency(spectralArg.zoneStats)]],
         falseColorComposites |-> spectralArg.composites,
         earlyWarnings |->
            generateEarlyWarnings(spectralArg.zoneStats, ArgOf(aiResult, "earlyWarnings")),
         resourceApplication |-> generateResourceRecommendations(enhancedZones),
         actionPlan |-> generateActionPlan(enhancedZones, ArgOf(aiResult, "actionPlan"))]

mergeSpectralWithAI(aiResult, spectralArg) ==
    Spread(ComputedResult(aiResult, spectralArg), aiResult)

----------------------------------------------------------------------------
(* Specification SpecMerge: generateFullAnalysis on a decoded 2x2 raster,   *)
(* then mergeSpectralWithAI with an external assessment                    *)

\* a healthy pixel (its zone gets priority Low) and a water-stressed one
\* (Critical); neither is a rounding tie of simulateNIR
MergePalette == {[r |-> 51, g |-> 255, b |-> 102], [r |-> 42, g |-> 30, b |-> 180]}

\* Math.random() in [0, 1), in hundredths
RandomSamples == {0, 5, 99}

AiZoneFull ==
    [id |-> <<"Z", "1">>, name |-> <<"Northwest Section">>, healthScore |-> Num(85),
     status |-> "Excellent", colorSignature |-> "Dark green, dense canopy",
     issues |-> <<>>, irrigationNeed |-> "None", fertilizationNeed |-> "None",
     priority |-> "Low"]

AiZonePartial ==
    [name |-> <<"Northeast Section">>, status |-> "Moderate Stress",
     issues |-> <<<<"Early drought stress">>>>, irrigationNeed |-> "High - Immediate",
     priority |-> "High"]

AiHealthMapFull ==
    [overallScore |-> Num(78), overallStatus |-> "Good with localized stress",
     fieldSize |-> "Approximately 15-20 acres visible", cropType |-> "Maize",
     growthStage |-> "Reproductive", analysisConfidence |-> 85]

AiWarning ==
    [type |-> "Pest Risk", severity |-> "Low", location |-> <<"Field edge">>,
     action |-> "Scout weekly"]

\* one optional top-level key of the external assessment
Optional(key, values) == {NoKeys} \cup {key :> v : v \in values}

\* Utils.extractJSON returns the parsed object, or { rawText } when the
\* response holds no JSON: an assessment with none of the keys read here
AiResults ==
    {IF DOMAIN ai = {} THEN "rawText" :> "no JSON in the response" ELSE ai :
        ai \in {z @@ h @@ w @@ a @@ r :
            z \in Optional("zones", {<<AiZoneFull>>, <<AiZoneFull, AiZonePartial>>}),
            h \in Optional("healthMap", {AiHealthMapFull, [cropType |-> "Maize"]}),
            w \in Optional("earlyWarnings", {<<AiWarning>>}),
            a \in Optional("actionPlan",
                    {<<[action |-> <<"C", "o", "n", "d", "u", "c", "t", " ", "f", "i", "e", "l", "d", " ", "i", "n", "s", "p", "e", "c", "t", "i", "o", "n", " ", "a", "n", "d", " ", "s", "o", "i", "l", " ", "t", "e", "s", "t">>],
                       [action |-> <<"A", "p", "p", "l", "y", " ", "m", "u", "l", "c", "h">>, deadline |-> "This week"]>>}),
            r \in {NoKeys,
                    ("resourceApplication" :> [irrigation |-> [immediateZones |-> <<>>]])
                    @@ ("spectralAnalysis" :> [vegetationIndex |-> [score |-> Num(75)]])}}}

InitMerge ==
    /\ BandIdle
    /\ PlanIdle
    /\ EyeIdle
    /\ CallIdle
    /\ width = 2
    /\ height = 2
    /\ imageData \in [1 .. 4 -> MergePalette]
    /\ zonesArg = 4
    /\ zoneOut = {}
    /\ visited = <<>>
    /\ spectral = {}
    /\ rand \in RandomSamples
    /\ mergeAi = {}
    /\ mergeOut = {}

\* this.spectralData = await this.SpectralProcessor.generateFullAnalysis()
RunFullAnalysis ==
    /\ spectral = {}
    /\ spectral' = {generateFullAnalysis}
    /\ UNCHANGED <<callVars, bandVars, zoneVars, planVars, eyeVars, rand, mergeAi, mergeOut>>

\* this.mergeSpectralWithAI(result, this.spectralData)
MergeWithAI ==
    /\ mergeOut = {}
    /\ \E sd \in spectral, ai \in AiResults :
        /\ mergeAi' = {ai}
        /\ mergeOut' = {mergeSpectralWithAI(ai, sd)}
    /\ UNCHANGED <<callVars, bandVars, zoneVars, planVars, eyeVars, spectral, rand>>

NextMerge == RunFullAnalysis \/ MergeWithAI

SpecMerge == InitMerge /\ [][NextMerge]_vars

----------------------------------------------------------------------------
(* Claims on mergeSpectralWithAI *)

\* C6: in the result of mergeSpectralWithAI the zones array is always the
\* list of computed-then-externally-enriched per-zone records, one per
\* computed zone and carrying the computed ndvi/ndwi/healthScore fields,
\* also when the external assessment has a top-level zones key.
C6_ZonesAreEnhancedZones ==
    \A sd \in spectral, ai \in mergeAi, out \in mergeOut :
        /\ out.zones = EnhancedZones(ai, sd)
        /\ Len(out.zones) = Len(sd.zoneStats)
        /\ \A k \in DOMAIN out.zones : {"ndvi", "ndwi", "healthScore"} \subseteq DOMAIN out.zones[k]

\* C7: for every top-level key other than zones that the external
\* assessment has, the merged result holds exactly the external value; keys
\* the external assessment lacks hold the computed value.
C7_ExternalKeysWin ==
    \A sd \in spectral, ai \in mergeAi, out \in mergeOut :
        LET computed == ComputedResult(ai, sd)
        IN  /\ DOMAIN out = DOMAIN computed \cup DOMAIN ai
            /\ \A k \in DOMAIN ai \ {"zones"} : out[k] = ai[k]
            /\ \A k \in DOMAIN computed \ DOMAIN ai : out[k] = computed[k]

\* an assessment that overrides a computed key (healthMap) and lacks another
\* (earlyWarnings) has been merged
C7_Witness ==
    \E ai \in mergeAi, out \in mergeOut :
        /\ "healthMap" \in DOMAIN ai /\ out.healthMap = AiHealthMapFull
        /\ "earlyWarnings" \notin DOMAIN ai /\ "earlyWarnings" \in DOMAIN out

AiAbsent(ai) == DOMAIN ai \cap {"zones", "earlyWarnings", "actionPlan", "healthMap"} = {}

\* C9 (as stated): when the external assessment has none of zones,
\* earlyWarnings, actionPlan, healthMap, the merge completes with
\* healthMap.growthStage = 'Vegetative' and healthMap.analysisConfidence = 85,
\* the same on every invocation.
C9_FixedDefaults ==
    \A ai \in mergeAi, out \in mergeOut :
        AiAbsent(ai) =>
            /\ out.healthMap.growthStage = "Vegetative"
            /\ out.healthMap.analysisConfidence = 85

\* C9 (amended): when the external assessment has none of zones,
\* earlyWarnings, actionPlan, healthMap, the merge completes with
\* healthMap.growthStage = 'Vegetative', fieldSize = 'Analyzed', cropType =
\* 'Detected from imagery', and healthMap.analysisConfidence an integer in
\* 85..95 drawn anew from Math.random() on every invocation.
C9_DefaultsWithRandomConfidence ==
    \A ai \in mergeAi :
        AiAbsent(ai) =>
            /\ mergeOut # {}
            /\ \A out \in mergeOut :
                /\ out.healthMap.growthStage = "Vegetative"
                /\ out.healthMap.fieldSize = "Analyzed"
                /\ out.healthMap.cropType = "Detected from imagery"
                /\ out.healthMap.analysisConfidence \in 85 .. 95
                /\ out.healthMap.analysisConfidence =
                       85 + (rand + 5) \div 10

\* the fallback object { rawText } merged with a confidence other than 85
C9_Witness ==
    \E ai \in mergeAi, out \in mergeOut :
        /\ DOMAIN ai = {"rawText"}
        /\ out.healthMap.growthStage = "Vegetative"
        /\ out.healthMap.analysisConfidence = 95

----------------------------------------------------------------------------
(* EyeModule: uploads, removals and analyses as the event loop runs them.
   Every action is one task of the event loop together with the microtasks
   it queues: a continuation after an await runs in the task that settled
   the awaited promise. Results are kept as what they were built from. *)

\* Utils.file.toBase64(file), Utils.file.toDataURL(file), getMimeType(file)
Base64(u) == [kind |-> "base64", file |-> u]

DataURL(u) == [kind |-> "dataURL", file |-> u]

MimeType(u) == [kind |-> "mimeType", file |-> u]

\* the pixels img.onload reads from the image decoded from a data URL
RasterOf(src) == <<RGB((51 * src.file) % 256, 255 - ((40 * src.file) % 256), 102)>>

\* what generateFullAnalysis returns in call i for the raster decoded from src
SpectralOf(i, src) == [kind |-> "spectralData", analysis |-> i, image |-> src.file]

\* spectralData.composites
CompositesOf(sd) == [kind |-> "composites", analysis |-> sd.analysis, image |-> sd.image]

\* what GeminiAPI.analyzeField resolves to in call i: the object extractJSON
\* parsed, null when the response holds the JSON text null, or an object
\* whose zones is not an array
ResultKinds == {"assessment", "null", "zonesNotArray"}

AssessmentOf(i, kind, image, mime) ==
    [kind |-> kind, analysis |-> i, image |-> image.file, mimeType |-> mime]

\* mergeSpectralWithAI(result, spectralData) as what it was built from
MergedFrom(result, sd) ==
    [kind |-> "analysisResult", assessment |-> result, spectral |-> sd,
     falseColorComposites |-> CompositesOf(sd)]

\* showAnalysisProgress: the container is shown with the progress stages
Progress == [kind |-> "progress"]

\* a finally block that leaves the button as the click left it
ButtonLeftLoading == [disabled |-> TRUE, loading |-> TRUE]

\* the finally block of analyzeField
ButtonRestored == [disabled |-> FALSE, loading |-> FALSE]

\* a catch block that also writes the activity-log entry
SettledAndLogged(call, toast) ==
    [call EXCEPT !.pc = "settled", !.toast = toast, !.logged = TRUE]

\* the catch block and the return of analyzeField
Settled(call, toast) == [call EXCEPT !.pc = "settled", !.toast = toast]

InitEye ==
    /\ BandIdle
    /\ ZoneIdle
    /\ PlanIdle
    /\ MergeIdle
    /\ CallIdle
    /\ EyeFresh
    /\ analyzeBtn \in [disabled : BOOLEAN, loading : {FALSE}]

\* handleFile(file) for a file validateImage accepts, up to its first await
HandleFile(u) ==
    /\ handleFileCalls[u].pc = "idle"
    /\ u > 1 => handleFileCalls[u - 1].pc # "idle"
    /\ handleFileCalls' = [handleFileCalls EXCEPT ![u] = [pc |-> "toDataURL"]]
    /\ UNCHANGED <<callVars, bandVars, zoneVars, planVars, mergeVars, currentImage, currentImageMime,
                   analysisResult, spectralData, falseColorImages, previewSrc, analyzeBtn,
                   resultsContainer, analyzeFieldCalls>>

\* toDataURL resolved: handleFile goes on to await toBase64
DataURLRead(u) ==
    /\ handleFileCalls[u].pc = "toDataURL"
    /\ handleFileCalls' = [handleFileCalls EXCEPT ![u] = [pc |-> "toBase64"]]
    /\ UNCHANGED <<callVars, bandVars, zoneVars, planVars, mergeVars, currentImage, currentImageMime,
                   analysisResult, spectralData, falseColorImages, previewSrc, analyzeBtn,
                   resultsContainer, analyzeFieldCalls>>

\* toBase64 resolved: the rest of the try block of handleFile
FileLoaded(u) ==
    /\ handleFileCalls[u].pc = "toBase64"
    /\ handleFileCalls' = [handleFileCalls EXCEPT ![u] = [pc |-> "loaded"]]
    /\ currentImage' = Base64(u)
    /\ currentImageMime' = MimeType(u)
    /\ previewSrc' = DataURL(u)
    /\ analyzeBtn' = [analyzeBtn EXCEPT !.disabled = FALSE]
    /\ UNCHANGED <<callVars, bandVars, zoneVars, planVars, mergeVars, analysisResult, spectralData,
                   falseColorImages, resultsContainer, analyzeFieldCalls>>

\* either read rejected: the catch block of handleFile
FileReadFailed(u) ==
    /\ handleFileCalls[u].pc \in {"toDataURL", "toBase64"}
    /\ handleFileCalls' = [handleFileCalls EXCEPT ![u] = [pc |-> "failed"]]
    /\ UNCHANGED <<callVars, bandVars, zoneVars, planVars, mergeVars, currentImage, currentImageMime,
                   analysisResult, spectralData, falseColorImages, previewSrc, analyzeBtn,
                   resultsContainer, analyzeFieldCalls>>

\* removeImage()
RemoveImage ==
    /\ currentImage' = Null
    /\ currentImageMime' = Null
    /\ analysisResult' = Null
    /\ analyzeBtn' = [analyzeBtn EXCEPT !.disabled = TRUE]
    /\ resultsContainer' = [resultsContainer EXCEPT !.hidden = TRUE]
    /\ UNCHANGED <<callVars, bandVars, zoneVars, planVars, mergeVars, spectralData, falseColorImages,
                   previewSrc, handleFileCalls, analyzeFieldCalls>>

\* a click on the enabled analyze button: analyzeField() past its guards, up
\* to the await of loadImage
AnalyzeField(i) ==
    /\ ~analyzeBtn.disabled
    /\ currentImage # Null
    /\ analyzeFieldCalls[i].pc = "idle"
    /\ i > 1 => analyzeFieldCalls[i - 1].pc # "idle"
    /\ analyzeBtn' = [disabled |-> TRUE, loading |-> TRUE]
    /\ resultsContainer' = [hidden |-> FALSE, content |-> Progress]
    /\ analyzeFieldCalls' = [analyzeFieldCalls EXCEPT ![i] =
            [pc |-> "loadImage", imageSrc |-> previewSrc, sent |-> Null,
             toast |-> "none", displayed |-> FALSE, logged |-> FALSE]]
    /\ UNCHANGED <<callVars, bandVars, zoneVars, planVars, mergeVars, currentImage, currentImageMime,
                   analysisResult, spectralData, falseColorImages, previewSrc, handleFileCalls>>

\* img.onload of call i, then generateFullAnalysis and the call of
\* GeminiAPI.analyzeField, whose analyzeImage throws on a null image
ImageLoaded(i) ==
    LET call == analyzeFieldCalls[i]
        sd == SpectralOf(i, call.imageSrc)
    IN  /\ call.pc = "loadImage"
        /\ width' = 1
        /\ height' = 1
        /\ imageData' = RasterOf(call.imageSrc)
        /\ spectralData' = sd
        /\ falseColorImages' = CompositesOf(sd)
        /\ IF currentImage = Null
           THEN /\ analyzeFieldCalls' = [analyzeFieldCalls EXCEPT ![i] = Settled(call, "failed")]
                /\ analyzeBtn' = ButtonRestored
           ELSE /\ analyzeFieldCalls' = [analyzeFieldCalls EXCEPT ![i] =
                        [call EXCEPT !.pc = "analyzeField",
                                     !.sent = [image |-> currentImage, mimeType |-> currentImageMime]]]
                /\ UNCHANGED analyzeBtn
        /\ UNCHANGED <<callVars, bandVars, planVars, mergeVars, zonesArg, zoneOut, visited, currentImage,
                       currentImageMime, analysisResult, previewSrc, resultsContainer,
                       handleFileCalls>>

\* img.onerror of call i: catch and finally
ImageFailed(i) ==
    /\ analyzeFieldCalls[i].pc = "loadImage"
    /\ analyzeFieldCalls' = [analyzeFieldCalls EXCEPT ![i] = Settled(@, "failed")]
    /\ analyzeBtn' = ButtonRestored
    /\ UNCHANGED <<callVars, bandVars, zoneVars, planVars, mergeVars, currentImage, currentImageMime,
                   analysisResult, spectralData, falseColorImages, previewSrc,
                   resultsContainer, handleFileCalls>>

\* GeminiAPI.analyzeField of call i resolved: merge, display, log, finally.
\* The merge throws on null; displayHealthMap throws when zones has no map.
AssessmentReceived(i, kind) ==
    LET call == analyzeFieldCalls[i]
        result == AssessmentOf(i, kind, call.sent.image, call.sent.mimeType)
        merged == MergedFrom(result, spectralData)
    IN  /\ call.pc = "analyzeField"
        /\ analyzeBtn' = ButtonRestored
        /\ CASE kind = "null" ->
                  /\ analyzeFieldCalls' = [analyzeFieldCalls EXCEPT ![i] = Settled(call, "failed")]
                  /\ UNCHANGED <<analysisResult, resultsContainer>>
             [] kind = "zonesNotArray" ->
                  /\ analysisResult' = merged
                  /\ analyzeFieldCalls' = [analyzeFieldCalls EXCEPT ![i] = Settled(call, "failed")]
                  /\ UNCHANGED resultsContainer
             [] kind = "assessment" ->
                  /\ analysisResult' = merged
                  /\ resultsContainer' = [resultsContainer EXCEPT !.content = merged]
                  /\ analyzeFieldCalls' = [analyzeFieldCalls EXCEPT ![i] =
                        [Settled(call, "success") EXCEPT !.displayed = TRUE, !.logged = TRUE]]
        /\ UNCHANGED <<callVars, bandVars, zoneVars, planVars, mergeVars, currentImage, currentImageMime,
                       spectralData, falseColorImages, previewSrc, handleFileCalls>>

\* GeminiAPI.analyzeField of call i rejected: catch and finally
AssessmentFailed(i) ==
    /\ analyzeFieldCalls[i].pc = "analyzeField"
    /\ analyzeFieldCalls' = [analyzeFieldCalls EXCEPT ![i] = Settled(@, "failed")]
    /\ analyzeBtn' = ButtonRestored
    /\ UNCHANGED <<callVars, bandVars, zoneVars, planVars, mergeVars, currentImage, currentImageMime,
                   analysisResult, spectralData, falseColorImages, previewSrc,
                   resultsContainer, handleFileCalls>>

NextEye ==
    \/ \E u \in 1 .. MaxUploads :
        HandleFile(u) \/ DataURLRead(u) \/ FileLoaded(u) \/ FileReadFailed(u)
    \/ RemoveImage
    \/ \E i \in 1 .. MaxAnalyses :
        \/ AnalyzeField(i)
        \/ ImageLoaded(i)
        \/ ImageFailed(i)
        \/ \E kind \in ResultKinds : AssessmentReceived(i, kind)
        \/ AssessmentFailed(i)

SpecEye == InitEye /\ [][NextEye]_vars

----------------------------------------------------------------------------
(* Claims on concurrent analyses *)

\* C10: under any interleaving of handleFile, analyzeField and their
\* asynchronous completions, the analysisResult an analysis produces is built
\* only from that invocation's own spectral data and that invocation's own
\* external assessment: an analysis in flight when a newer one started never
\* merges its assessment with the statistics and composites the newer one
\* computed, nor the other way round.
C10_ResultFromOneAnalysis ==
    analysisResult # Null =>
        analysisResult.spectral.analysis = analysisResult.assessment.analysis

\* the analyzeField calls made so far, and those awaiting a completion
Started == {i \in 1 .. MaxAnalyses : analyzeFieldCalls[i].pc # "idle"}

InFlight == {i \in Started : analyzeFieldCalls[i].pc # "settled"}

\* C11: when a new analysis is started while an earlier one is in flight the
\* newer one supersedes it: once all in-flight analyses have settled, the
\* stored and displayed analysisResult is the one of the most recently
\* started analysis, whatever order the external responses arrive in.
C11_NewestSupersedes ==
    (/\ Started # {}
     /\ InFlight = {}
     /\ analysisResult # Null
     /\ \A i \in Started : analyzeFieldCalls[i].toast = "success")
        => /\ analysisResult.assessment.analysis = Cardinality(Started)
           /\ resultsContainer.content = analysisResult

\* C12: within one analyzeField invocation the image decoded into the raster
\* for the spectral passes and the image sent to the external assessment
\* service are the same uploaded image, even if handleFile completes for
\* another file while the invocation awaits the image decode.
C12_DecodedImageIsSentImage ==
    \A i \in Started :
        analyzeFieldCalls[i].sent # Null =>
            analyzeFieldCalls[i].sent.image.file = analyzeFieldCalls[i].imageSrc.file

\* the step in which call i fails: its image decode is rejected, or its
\* external call is rejected or throws before a request is made
FailureOf(i) ==
    \/ ImageFailed(i)
    \/ AssessmentFailed(i)
    \/ ImageLoaded(i) /\ currentImage = Null

\* C13: if image decoding fails, or the external assessment call fails, the
\* analyzeField invocation produces no result: analysisResult is not
\* assigned, displayHealthMap is not called, no activity-log entry is
\* written and, for a decode failure, the external service is never called;
\* the failure surfaces as one 'Analysis failed' notification.
C13_FailureLeavesNoResult ==
    [][\A i \in 1 .. MaxAnalyses :
        FailureOf(i) =>
            /\ analysisResult' = analysisResult
            /\ resultsContainer' = resultsContainer
            /\ analyzeFieldCalls[i].toast = "none"
            /\ analyzeFieldCalls'[i] =
                   [analyzeFieldCalls[i] EXCEPT !.pc = "settled", !.toast = "failed"]
            /\ ~analyzeFieldCalls'[i].displayed
            /\ ~analyzeFieldCalls'[i].logged
            /\ (ImageFailed(i) => analyzeFieldCalls'[i].sent = Null)]_vars

\* one call has failed before any request was made and another after its
\* request was sent, and no result is stored
C13_Witness ==
    /\ analysisResult = Null
    /\ \E i, j \in Started :
        /\ analyzeFieldCalls[i].pc = "settled" /\ analyzeFieldCalls[i].toast = "failed"
        /\ analyzeFieldCalls[i].sent = Null
        /\ analyzeFieldCalls[j].pc = "settled" /\ analyzeFieldCalls[j].toast = "failed"
        /\ analyzeFieldCalls[j].sent # Null

----------------------------------------------------------------------------
(* Specification SpecPriority: calculatePriority applied to one zone *)

MaxScore == 100

InitPriority ==
    /\ BandIdle
    /\ ZoneIdle
    /\ PlanIdle
    /\ MergeIdle
    /\ EyeIdle
    /\ callArgs \in [healthScore : {Num(h) : h \in 0 .. MaxScore},
                     waterStress : BOOLEAN, vegetationStress : BOOLEAN]
    /\ callResult = {}

CalculatePriority ==
    /\ callResult = {}
    /\ callResult' = {calculatePriority(callArgs)}
    /\ UNCHANGED <<callArgs, bandVars, zoneVars, planVars, mergeVars, eyeVars>>

NextPriority == CalculatePriority

SpecPriority == InitPriority /\ [][NextPriority]_vars

\* C14: calculatePriority returns the first match of the ordered rules
\* (healthScore < 40 or waterStress: Critical; healthScore < 60 or
\* vegetationStress: High; healthScore < 75: Medium; else Low) for every
\* healthScore in 0..100 and every pair of flags; every zone with
\* healthScore < 40 is Critical whatever its flags, and a zone with
\* healthScore 65, vegetationStress and no waterStress is High.
C14_FirstMatchingRule ==
    \A priority \in callResult :
        LET score == callArgs.healthScore[1]
            water == callArgs.waterStress
            veg == callArgs.vegetationStress
        IN  /\ priority = "Critical" <=> (score < 40 \/ water)
            /\ priority = "High" <=> (~(score < 40 \/ water) /\ (score < 60 \/ veg))
            /\ priority = "Medium" <=> (score >= 60 /\ score < 75 /\ ~water /\ ~veg)
            /\ priority = "Low" <=> (score >= 75 /\ ~water /\ ~veg)
            /\ (score = 65 /\ veg /\ ~water) => priority = "High"

\* the zone with healthScore 65 and vegetationStress alone has been classified
C14_Witness ==
    /\ callArgs = [healthScore |-> Num(65), waterStress |-> FALSE, vegetationStress |-> TRUE]
    /\ callResult = {"High"}

----------------------------------------------------------------------------
(* Further claims on the action plan *)

NoUrgentZone ==
    \A k \in DOMAIN planZones : planZones[k].priority \notin {"Critical", "High"}

\* C15: for every zone list with no Critical and no High zone, and every
\* external action list (empty or missing included), generateActionPlan
\* returns a non-empty plan whose first item is the fixed 'Conduct field
\* inspection' item with priority 1.
C15_InspectionFirst ==
    \A plan \in planOut :
        NoUrgentZone =>
            /\ Len(plan) >= 1
            /\ plan[1].priority = 1
            /\ {"action", "deadline"} \subseteq DOMAIN plan[1]
            /\ Len(plan[1].action) >= 24
            /\ SubSeq(plan[1].action, 1, 24) =
                   <<"C", "o", "n", "d", "u", "c", "t", " ", "f", "i", "e", "l", "d", " ",
                     "i", "n", "s", "p", "e", "c", "t", "i", "o", "n">>
            /\ plan[1].deadline = "Within 48 hours"

\* a plan for Medium and Low zones only to which an external item was appended
C15_Witness ==
    /\ NoUrgentZone
    /\ planZones # <<>>
    /\ planAi.kind = "array"
    /\ \E plan \in planOut : Len(plan) = 2 /\ plan[2].priority = 2

\* the external action items handed to generateActionPlan
ExternalItems == IF planAi.kind = "array" THEN planAi.items ELSE <<>>

\* the items generateActionPlan computes from the zones alone
ComputedItems == generateActionPlan(planZones, Undefined)

\* C16: generateActionPlan processes the external action items in order
\* after the computed items and appends an external item if and only if no
\* item in the plan at that moment (computed items and external items
\* appended before it) has an action text that contains, case-insensitively,
\* the first 20 characters of the external item's action text (an item
\* without action text has the empty prefix); appended items keep their
\* relative order and computed items are never removed or reordered.
C16_ExternalItemsAppended ==
    \A plan \in planOut :
        LET items == ExternalItems
            computed == ComputedItems
            n == Len(computed)
            computedTexts == {toLowerCase(computed[c].action) : c \in 1 .. n}
            WithText == {k \in 1 .. Len(items) : "action" \in DOMAIN items[k]}
            lower == [k \in WithText |-> toLowerCase(items[k].action)]
            prefix == [k \in 1 .. Len(items) |->
                        IF k \in WithText
                        THEN SubSeq(lower[k], 1, Min(20, Len(lower[k])))
                        ELSE <<>>]
            Represented(K, k) ==
                \E text \in computedTexts \cup {lower[j] : j \in {j \in K : j < k}} :
                    includes(text, prefix[k])
        IN  \E K \in SUBSET WithText :
                /\ \A k \in 1 .. Len(items) : k \in K <=> ~Represented(K, k)
                /\ Len(plan) = n + Cardinality(K)
                /\ SubSeq(plan, 1, n) = computed
                /\ \A k \in K :
                    LET r == Cardinality({j \in K : j <= k})
                    IN  plan[n + r] = [priority |-> n + r] @@ items[k]

\* a long external action was appended and a later short one, whose text the
\* appended one contains, was not
C16_Witness ==
    /\ Len(ExternalItems) = 2
    /\ "action" \in DOMAIN ExternalItems[1] /\ Len(ExternalItems[1].action) > 20
    /\ "action" \in DOMAIN ExternalItems[2]
    /\ ExternalItems[2].action = <<"A", "p", "p", "l", "y", " ", "m", "u", "l", "c", "h">>
    /\ \E plan \in planOut :
        /\ Len(plan) = Len(ComputedItems) + 1
        /\ plan[Len(plan)].action = ExternalItems[1].action

----------------------------------------------------------------------------
(* Specification SpecWarnings: generateEarlyWarnings on a zone list and an
   external warning list *)

\* the zone lists hold MaxWarnZones zones
MaxWarnZones == 2

\* zone statistics on both sides of each threshold the function reads
WarnZoneStats ==
    {[k \in 1 .. MaxWarnZones |-> [zoneIndex |-> k - 1] @@ z[k]] :
        z \in [1 .. MaxWarnZones ->
                [waterStress : BOOLEAN, vegetationStress : BOOLEAN,
                 stressPercentage : {Num(30), Quot(301, 10)},
                 avgNDWI : {Quot(-3, 10), Quot(-301, 1000)}]]}

AiWarningLists ==
    {Undefined, [kind |-> "null"], ArrayArg(<<>>), ArrayArg(<<AiWarning>>),
     ArrayArg(<<AiWarning, [type |-> "Water Stress", severity |-> "Low"]>>)}

InitWarnings ==
    /\ BandIdle
    /\ ZoneIdle
    /\ PlanIdle
    /\ MergeIdle
    /\ EyeIdle
    /\ callArgs \in [zoneStats : WarnZoneStats, aiWarnings : AiWarningLists]
    /\ callResult = {}

GenerateEarlyWarnings ==
    /\ callResult = {}
    /\ callResult' = {generateEarlyWarnings(callArgs.zoneStats, callArgs.aiWarnings)}
    /\ UNCHANGED <<callArgs, bandVars, zoneVars, planVars, mergeVars, eyeVars>>

NextWarnings == GenerateEarlyWarnings

SpecWarnings == InitWarnings /\ [][NextWarnings]_vars

\* the warning the claim gives a zone: "water", "nutrient" or "none"
WarningKind(zone) ==
    IF zone.waterStress /\ Gt(zone.stressPercentage, Num(30)) THEN "water"
    ELSE IF zone.vegetationStress /\ ~zone.waterStress THEN "nutrient"
    ELSE "none"

WarnedZones == {k \in DOMAIN callArgs.zoneStats : WarningKind(callArgs.zoneStats[k]) # "none"}

ExternalWarnings ==
    IF callArgs.aiWarnings.kind = "array" THEN callArgs.aiWarnings.items ELSE <<>>

\* C17: generateEarlyWarnings returns the external warning list as an
\* unchanged prefix (same items, same order, input list not mutated),
\* followed by computed warnings in increasing zone index order, at most one
\* per zone: a Water Stress warning (severity Critical if avgNDWI < -0.3,
\* else High) when waterStress and stressPercentage > 30; otherwise a
\* Nutrient Deficiency warning of severity Moderate when vegetationStress
\* and not waterStress; otherwise nothing.
C17_WarningsInZoneOrder ==
    /\ [](\A warnings \in callResult :
            LET e == Len(ExternalWarnings)
            IN  /\ Len(warnings) = e + Cardinality(WarnedZones)
                /\ SubSeq(warnings, 1, e) = ExternalWarnings
                /\ \A k \in WarnedZones :
                    LET zone == callArgs.zoneStats[k]
                        w == warnings[e + Cardinality({j \in WarnedZones : j <= k})]
                    IN  /\ w.location = <<"Zone ", zone.zoneIndex + 1>>
                        /\ WarningKind(zone) = "water" =>
                            /\ w.type = "Water Stress"
                            /\ w.severity = IF Lt(zone.avgNDWI, Quot(-3, 10))
                                            THEN "Critical" ELSE "High"
                        /\ WarningKind(zone) = "nutrient" =>
                            /\ w.type = "Nutrient Deficiency"
                            /\ w.severity = "Moderate")
    /\ [][callArgs' = callArgs]_vars

\* two external warnings, then a Critical water warning for zone 1 and a
\* nutrient warning for zone 2
C17_Witness ==
    /\ Len(ExternalWarnings) = 2
    /\ \E warnings \in callResult :
        /\ Len(warnings) = 4
        /\ warnings[3].type = "Water Stress" /\ warnings[3].severity = "Critical"
        /\ warnings[4].type = "Nutrient Deficiency"

----------------------------------------------------------------------------
(* Further claims on mergeSpectralWithAI *)

\* the external assessment's zone at 1-based position k, {} when there is none
ExternalZone(ai, k) ==
    IF "zones" \in DOMAIN ai /\ k \in DOMAIN ai.zones THEN ai.zones[k] ELSE NoKeys

\* C18: each enriched zone record built by mergeSpectralWithAI at index i is
\* the computed record for zone i overlaid with the external assessment's
\* zone at the same index: every key of that external zone holds the
\* external value, every computed key absent from it holds the computed
\* value, and with no external zone at index i the record is purely computed.
C18_PositionalOverlay ==
    \A sd \in spectral, ai \in mergeAi, out \in mergeOut :
        LET enhanced == EnhancedZones(ai, sd)
        IN  /\ Len(enhanced) = Len(sd.zoneStats)
            /\ "zones" \notin DOMAIN ai => out.zones = enhanced
            /\ \A k \in DOMAIN enhanced :
                LET external == ExternalZone(ai, k)
                    computed == EnhancedZone(NoKeys, sd.zoneStats[k], k - 1)
                IN  /\ DOMAIN enhanced[k] = DOMAIN computed \cup DOMAIN external
                    /\ \A key \in DOMAIN external : enhanced[k][key] = external[key]
                    /\ \A key \in DOMAIN computed \ DOMAIN external :
                        enhanced[k][key] = computed[key]
                    /\ external = NoKeys => enhanced[k] = computed

\* two external zones merged over four computed ones: the second overrides
\* the computed priority and name of zone 2 and adds a status, the third
\* zone is purely computed
C18_Witness ==
    \E sd \in spectral, ai \in mergeAi :
        /\ mergeOut # {}
        /\ "zones" \in DOMAIN ai /\ Len(ai.zones) = 2 /\ Len(sd.zoneStats) = 4
        /\ EnhancedZone(NoKeys, sd.zoneStats[2], 1).priority # "High"
        /\ EnhancedZones(ai, sd)[2].priority = "High"
        /\ EnhancedZones(ai, sd)[2].status = "Moderate Stress"
        /\ "status" \notin DOMAIN EnhancedZones(ai, sd)[3]

----------------------------------------------------------------------------
(* Specification SpecHealth: the healthScore formula of calculateZoneStats
   applied to two triples of averages that differ in one average *)

\* averages are multiples of 1 / HealthGrid
HealthGrid == 4

\* averages of NDVI and NDWI lie in [-1, 1]
UnitAverages == {Quot(n, HealthGrid) : n \in (-HealthGrid) .. HealthGrid}

\* averages of VARI lie in [-255, 255]
VariAverages == UnitAverages \cup {Num(-255), Num(-3), Quot(-3, 2), Quot(3, 2), Num(3), Num(255)}

Averages == [avgNDVI : UnitAverages, avgNDWI : UnitAverages, avgVARI : VariAverages]

\* b is a with one average raised
RaisedIn(a, b, key) ==
    /\ Lt(a[key], b[key])
    /\ \A other \in {"avgNDVI", "avgNDWI", "avgVARI"} \ {key} : a[other] = b[other]

InitHealth ==
    /\ BandIdle
    /\ ZoneIdle
    /\ PlanIdle
    /\ MergeIdle
    /\ EyeIdle
    /\ \E low \in Averages, key \in {"avgNDVI", "avgNDWI", "avgVARI"}, v \in VariAverages :
        /\ key # "avgVARI" => v \in UnitAverages
        /\ RaisedIn(low, [low EXCEPT ![key] = v], key)
        /\ callArgs = [low |-> low, high |-> [low EXCEPT ![key] = v]]
    /\ callResult = {}

ComputeHealthScores ==
    /\ callResult = {}
    /\ callResult' =
        {[low |-> HealthScore(callArgs.low.avgNDVI, callArgs.low.avgNDWI, callArgs.low.avgVARI),
          high |-> HealthScore(callArgs.high.avgNDVI, callArgs.high.avgNDWI,
                               callArgs.high.avgVARI)]}
    /\ UNCHANGED <<callArgs, bandVars, zoneVars, planVars, mergeVars, eyeVars>>

NextHealth == ComputeHealthScores

SpecHealth == InitHealth /\ [][NextHealth]_vars

\* C19: the zone healthScore round(clamp(0, 100, (avgNDVI+1)/2*60 +
\* (avgNDWI+1)/2*25 + (avgVARI+1)/2*15)) is monotonically non-decreasing in
\* each of avgNDVI, avgNDWI and avgVARI taken individually with the other
\* two held fixed, over the whole range of the averages, VARI averages
\* outside [-1, 1] (where the clamp applies) included.
C19_ScoreMonotone ==
    \A scores \in callResult :
        /\ Le(scores.low, scores.high)
        /\ InRange(scores.low, 0, 100) /\ InRange(scores.high, 0, 100)

\* a VARI average raised from inside [-1, 1] to above it, the score rising
\* to the clamp at 100
C19_Witness ==
    \E scores \in callResult :
        /\ RaisedIn(callArgs.low, callArgs.high, "avgVARI")
        /\ Le(callArgs.low.avgVARI, Num(1)) /\ Gt(callArgs.high.avgVARI, Num(1))
        /\ Lt(scores.low, scores.high)
        /\ scores.high = Num(100)

----------------------------------------------------------------------------
(* Further claims on the band functions *)

\* clamp(0, 255, v)
ClampChannel(v) == Max(0, Min(MaxChannel, v))

----------------------------------------------------------------------------
(* The anchor colours of the band simulator *)

White == [r |-> MaxChannel, g |-> MaxChannel, b |-> MaxChannel]

PureGreen == [r |-> 0, g |-> MaxChannel, b |-> 0]

PureRed == [r |-> MaxChannel, g |-> 0, b |-> 0]

\* C21: white has simulated NIR 255 and NDVI exactly 0, pure green has NIR 255
\* and NDVI exactly 1, pure red has NIR 0 and NDVI exactly -1.
C21_AnchorColours ==
    \A s \in sample :
        /\ px = White => s.nir = MaxChannel /\ s.ndvi = Num(0)
        /\ px = PureGreen => s.nir = MaxChannel /\ s.ndvi = Num(1)
        /\ px = PureRed => s.nir = 0 /\ s.ndvi = Num(-1)

C21_Witness ==
    /\ px = PureGreen
    /\ \E s \in sample : s.nir = MaxChannel /\ s.ndvi = Num(1)

----------------------------------------------------------------------------
(* Specification SpecGrid: calculateZoneStats for every requested zone     *)
(* count on rasters of one colour, the grid not depending on the colours   *)

MaxZoneCount == 9

InitGrid ==
    /\ BandIdle
    /\ PlanIdle
    /\ MergeIdle
    /\ EyeIdle
    /\ CallIdle
    /\ width \in 1 .. MaxDim
    /\ height \in 1 .. MaxDim
    /\ \E c \in Palette : imageData = [i \in 1 .. width * height |-> c]
    /\ zonesArg \in 1 .. MaxZoneCount
    /\ zoneOut = {}
    /\ visited = <<>>

SpecGrid == InitGrid /\ [][NextZone]_vars

----------------------------------------------------------------------------
(* Claims on the zone grid *)

\* C22: calculateZoneStats returns gridSize * gridSize zones in row-major
\* order (zoneIndex = row * gridSize + col), gridSize being 2 when the
\* requested zone count is at most 4 and 3 otherwise; the zones' pixel
\* rectangles are pairwise disjoint and lie inside the raster.
C22_GridOfDisjointZones ==
    \A zs \in zoneOut :
        LET gridSize == IF zonesArg <= 4 THEN 2 ELSE 3
        IN  /\ Len(zs) = gridSize * gridSize
            /\ DOMAIN visited = DOMAIN zs
            /\ \A k \in DOMAIN zs :
                  /\ zs[k].zoneIndex = k - 1
                  /\ zs[k].zoneIndex = zs[k].row * gridSize + zs[k].col
                  /\ zs[k].row \in 0 .. (gridSize - 1)
                  /\ zs[k].col \in 0 .. (gridSize - 1)
                  /\ visited[k] \subseteq AllPixels
            /\ \A j, k \in DOMAIN visited :
                  j # k => visited[j] \cap visited[k] = {}

\* a 3 x 3 grid was computed on a raster where every cell holds a pixel
C22_Witness ==
    /\ zonesArg = 5
    /\ \E zs \in zoneOut : Len(zs) = 9
    /\ DOMAIN visited = 1 .. 9
    /\ \A k \in DOMAIN visited : visited[k] # {}

----------------------------------------------------------------------------
(* Specification SpecPass: repeated passes of the processor over a raster  *)
(*                                                                         *)
(* A generator reads the decoded raster (this.imageData) and writes a      *)
(* buffer it has created; the two buffers are the fields source and output *)
(* of a heap, and setPixel names the one it writes.  callArgs holds the    *)
(* raster as loadImage decoded it, callResult the passes made since.       *)

\* rasters of at most PassPixels pixels
PassPixels == 4

MaxPasses == 2

\* this.ctx.createImageData(this.width, this.height): transparent black
createImageData == [i \in 1 .. width * height |-> RGB(0, 0, 0)]

\* a setPixel that writes the raster it reads from
setPixel_intoSource(heap, target, x, y, r, g, b) ==
    [heap EXCEPT !["source"][(y * width + x) + 1] = RGB(r, g, b)]

\* setPixel(imageData, x, y, r, g, b) with imageData the buffer named target
setPixel(heap, target, x, y, r, g, b) ==
    [heap EXCEPT ![target][(y * width + x) + 1] = RGB(r, g, b)]

\* a composite whose red and blue channels are exchanged: (g, r, nir)
PassColor_cirReversed(op, pixel) ==
    CASE op = "cir" -> RGB(pixel.g, pixel.r, simulateNIR(pixel.r, pixel.g, pixel.b))
      [] op = "ndvi" -> ndviToColor(calculateNDVI(pixel.r, pixel.g, pixel.b))
      [] op = "ndwi" -> ndwiToColor(calculateNDWI(pixel.r, pixel.g, pixel.b))
      [] op = "stress" -> stressToColor(StressScore(pixel))
      [] op = "nirEnhanced" -> NIRColor(pixel)

\* the colour each generator computes for a source pixel
PassColor(op, pixel) ==
    CASE op = "cir" -> RGB(simulateNIR(pixel.r, pixel.g, pixel.b), pixel.r, pixel.g)
      [] op = "ndvi" -> ndviToColor(calculateNDVI(pixel.r, pixel.g, pixel.b))
      [] op = "ndwi" -> ndwiToColor(calculateNDWI(pixel.r, pixel.g, pixel.b))
      [] op = "stress" -> stressToColor(StressScore(pixel))
      [] op = "nirEnhanced" -> NIRColor(pixel)

RECURSIVE RenderLoop(_, _, _)
\* the y/x loops of a generator from pixel i = y * width + x on
RenderLoop(heap, op, i) ==
    IF i >= width * height THEN heap
    ELSE LET x == i % width
             y == i \div width
             pixel == heap.source[(y * width + x) + 1]
             c == PassColor(op, pixel)
         IN  RenderLoop(setPixel(heap, "output", x, y, c.r, c.g, c.b), op, i + 1)

\* one generator run on the raster source: the heap it leaves
Generator(source, op) ==
    RenderLoop([source |-> source, output |-> createImageData], op, 0)

\* generateFullAnalysis: the five generators in turn, then the zone grid and
\* the sampled statistics, which only read
FullAnalysisPass(source) ==
    LET cir == Generator(source, "cir")
        ndviMap == Generator(cir.source, "ndvi")
        ndwiMap == Generator(ndviMap.source, "ndwi")
        stressMap == Generator(ndwiMap.source, "stress")
        nirComposite == Generator(stressMap.source, "nirEnhanced")
    IN  [source |-> nirComposite.source,
         result |->
            [composites |->
                [cir         |-> imageDataToDataURL(cir.output),
                 ndvi        |-> imageDataToDataURL(ndviMap.output),
                 ndwi        |-> imageDataToDataURL(ndwiMap.output),
                 stress      |-> imageDataToDataURL(stressMap.output),
                 nirEnhanced |-> imageDataToDataURL(nirComposite.output)],
             statistics |-> generateFullAnalysis.statistics,
             zoneStats  |-> generateFullAnalysis.zoneStats]]

PassRasters ==
    UNION {UNION {[width : {w}, height : {h}, data : [1 .. w * h -> Palette]] :
                     h \in 1 .. (PassPixels \div w)} : w \in 1 .. PassPixels}

InitPass ==
    /\ BandIdle
    /\ ZoneIdle
    /\ PlanIdle
    /\ MergeIdle
    /\ EyeIdle
    /\ CallIdle

\* img.onload of loadImage
LoadImage(ras) ==
    /\ width' = ras.width
    /\ height' = ras.height
    /\ imageData' = ras.data
    /\ callArgs' = <<ras>>
    /\ callResult' = {}
    /\ UNCHANGED <<bandVars, zonesArg, zoneOut, visited, planVars, mergeVars, eyeVars>>

PassRecorded(op, result) ==
    /\ callArgs # <<>>
    /\ Cardinality(callResult) < MaxPasses
    /\ callResult' = callResult \cup
          {[n |-> Cardinality(callResult) + 1, op |-> op, result |-> result]}

PassZoneStats(zones) ==
    /\ PassRecorded(<<"calculateZoneStats", zones>>, calculateZoneStats(zones))
    /\ UNCHANGED <<callArgs, bandVars, zoneVars, planVars, mergeVars, eyeVars>>

PassCIR ==
    LET heap == Generator(imageData, "cir")
    IN  /\ PassRecorded(<<"generateCIR">>, imageDataToDataURL(heap.output))
        /\ imageData' = heap.source
        /\ UNCHANGED <<callArgs, bandVars, width, height, zonesArg, zoneOut, visited,
                       planVars, mergeVars, eyeVars>>

PassFullAnalysis ==
    LET pass == FullAnalysisPass(imageData)
    IN  /\ PassRecorded(<<"generateFullAnalysis">>, pass.result)
        /\ imageData' = pass.source
        /\ UNCHANGED <<callArgs, bandVars, width, height, zonesArg, zoneOut, visited,
                       planVars, mergeVars, eyeVars>>

NextPass ==
    \/ \E ras \in PassRasters : LoadImage(ras)
    \/ \E zones \in {4, 9} : PassZoneStats(zones)
    \/ PassCIR
    \/ PassFullAnalysis

SpecPass == InitPass /\ [][NextPass]_vars

\* the raster the processor holds
Raster == [width |-> width, height |-> height, data |-> imageData]

\* C23: two runs of calculateZoneStats, or of generateCIR, on the same
\* unchanged raster give identical results whatever passes were made before,
\* and each CIR output pixel is (nir, r, g) of the source pixel at the same
\* position.
C23_PassesAreDeterministic ==
    /\ \A a, b \in callResult : a.op = b.op => a.result = b.result
    /\ \A a \in callResult :
          /\ a.op[1] = "calculateZoneStats" => a.result = calculateZoneStats(a.op[2])
          /\ a.op[1] = "generateCIR" =>
                /\ a.result = generateCIR
                /\ a.result.width = callArgs[1].width
                /\ a.result.height = callArgs[1].height
                /\ DOMAIN a.result.data = DOMAIN callArgs[1].data
                /\ \A i \in DOMAIN a.result.data :
                      LET pixel == callArgs[1].data[i]
                      IN  a.result.data[i] =
                            RGB(simulateNIR(pixel.r, pixel.g, pixel.b), pixel.r, pixel.g)

\* the same generator ran twice, with a full analysis before or between
C23_Witness ==
    /\ width = 2 /\ height = 2
    /\ \E i, j \in DOMAIN imageData : imageData[i] # imageData[j]
    /\ \E a, b \in callResult : a.n # b.n /\ a.op = <<"generateCIR">> /\ b.op = a.op

\* C24: between one loadImage and the next, no pass of generateFullAnalysis,
\* of a composite generator or of calculateZoneStats changes the decoded
\* raster: its width, its height and every pixel stay as decoded.
C24_RasterUnchangedByPasses ==
    callArgs # <<>> => Raster = callArgs[1]

C24_Witness ==
    /\ callArgs # <<>>
    /\ width * height = PassPixels
    /\ \E a, b \in callResult :
          /\ a.op = <<"generateFullAnalysis">>
          /\ b.op[1] = "calculateZoneStats"

----------------------------------------------------------------------------
(* Specification SpecAnomaly: findNDVIAnomalies on the statistics of the   *)
(* four zones of a full analysis                                           *)

\* zone averages as toFixed(3) leaves them; no list drawn from these has a
\* zone exactly 0.15 below the mean
NDVILevels == {Quot(5, 100), Quot(3, 10), Quot(7, 10)}

AnomalyZoneStats ==
    {[k \in DOMAIN z |-> [zoneIndex |-> k - 1, avgNDVI |-> z[k]]] :
        z \in [1 .. GridSize(4) * GridSize(4) -> NDVILevels]}

InitAnomaly ==
    /\ BandIdle
    /\ ZoneIdle
    /\ PlanIdle
    /\ MergeIdle
    /\ EyeIdle
    /\ callArgs \in AnomalyZoneStats
    /\ callResult = {}

FindNDVIAnomalies ==
    /\ callResult = {}
    /\ callResult' = {findNDVIAnomalies(callArgs)}
    /\ UNCHANGED <<callArgs, bandVars, zoneVars, planVars, mergeVars, eyeVars>>

NextAnomaly == FindNDVIAnomalies

SpecAnomaly == InitAnomaly /\ [][NextAnomaly]_vars

\* the mean NDVI of the zones passed in
FieldMeanNDVI == DivQ(SumOf(callArgs, LAMBDA z : z.avgNDVI), Len(callArgs))

\* C25: findNDVIAnomalies reports zone i if and only if its NDVI is more than
\* 0.15 below the mean NDVI of all zones, and the number in that zone's
\* message is the percentage gap between the field mean and the zone's NDVI.
C25_MessageStatesGap ==
    \A anomalies \in callResult :
        /\ \A k \in DOMAIN callArgs :
              (\E j \in DOMAIN anomalies : anomalies[j][2] = k)
                 <=> Lt(callArgs[k].avgNDVI, AddQ(FieldMeanNDVI, Quot(-15, 100)))
        /\ \A j \in DOMAIN anomalies :
              anomalies[j][4] =
                 ToFixed(MulQ(AddQ(FieldMeanNDVI,
                                   MulQ(Num(-1), callArgs[anomalies[j][2]].avgNDVI)),
                              Num(100)), 0)

\* C26: whenever analysisResult and spectralData are both set, the
\* analysisResult was built from that spectralData: both come from the same
\* analyzeField invocation, also after failed analyses and removals.
C26_ResultMatchesSpectralData ==
    (analysisResult # Null /\ spectralData # Null) =>
        analysisResult.spectral = spectralData

\* C27: with analyses started only by a click on the enabled analyze button,
\* at most one analyzeField invocation is in flight at any time, and the
\* button stays disabled from the start of an analysis until it has finished.
C27_OneAnalysisInFlight ==
    /\ Cardinality(InFlight) <= 1
    /\ InFlight # {} => analyzeBtn.disabled

\* C28: a stored analysis result implies a current image; after removeImage
\* no analysis that was in flight sets analysisResult or renders a health map
\* for the removed image.
C28_ResultImpliesImage ==
    analysisResult # Null => currentImage # Null

----------------------------------------------------------------------------
(* Specification SpecNeed: the zones mergeSpectralWithAI computes from the *)
(* statistics of a decoded 2x2 raster when the external assessment names   *)
(* no zones, and the resource recommendations made from them               *)

\* a healthy pixel, a water-stressed one, and one whose NDWI, -21/209, lies
\* between -0.1005 and -0.1; none is a rounding tie of simulateNIR
NeedPalette ==
    MergePalette \cup {[r |-> 230, g |-> 94, b |-> 120]}

InitNeed ==
    /\ BandIdle
    /\ PlanIdle
    /\ MergeIdle
    /\ EyeIdle
    /\ CallIdle
    /\ width = 2
    /\ height = 2
    /\ imageData \in [1 .. 4 -> NeedPalette]
    /\ zonesArg = 4
    /\ zoneOut = {}
    /\ visited = <<>>

\* calculateZoneStats(4), the zones of mergeSpectralWithAI and
\* generateResourceRecommendations(enhancedZones)
ComputeNeeds ==
    /\ callResult = {}
    /\ LET zoneStats == calculateZoneStats(zonesArg)
           enhancedZones == EnhancedZones(NoKeys, [zoneStats |-> zoneStats])
       IN  callResult' =
              {[zones |-> enhancedZones,
                resourceApplication |-> generateResourceRecommendations(enhancedZones)]}
    /\ UNCHANGED <<callArgs, bandVars, zoneVars, planVars, mergeVars, eyeVars>>

NextNeed == ComputeNeeds

SpecNeed == InitNeed /\ [][NextNeed]_vars

\* C29: every computed zone flagged waterStress has irrigationNeed
\* 'Critical - Urgent' or 'High - Immediate', so every zone that is Critical
\* because of water stress is listed in
\* resourceApplication.irrigation.immediateZones.
C29_WaterStressIsIrrigatedAtOnce ==
    \A res \in callResult : \A k \in DOMAIN res.zones :
        res.zones[k].waterStress =>
            /\ res.zones[k].irrigationNeed \in {"Critical - Urgent", "High - Immediate"}
            /\ res.zones[k].priority = "Critical" =>
                  \E j \in DOMAIN res.resourceApplication.irrigation.immediateZones :
                      res.resourceApplication.irrigation.immediateZones[j] = res.zones[k].id

----------------------------------------------------------------------------
(* Specification SpecEyeFair: SpecEye in which every image decode and      *)
(* every external call eventually settles                                  *)

\* img.onload or img.onerror of call i eventually fires
DecodeSettles(i) == WF_vars(ImageLoaded(i) \/ ImageFailed(i))

\* the promise of GeminiAPI.analyzeField of call i eventually settles
ExternalCallSettles(i) ==
    WF_vars((\E kind \in ResultKinds : AssessmentReceived(i, kind)) \/ AssessmentFailed(i))

SpecEyeFair ==
    /\ SpecEye
    /\ \A i \in 1 .. MaxAnalyses : DecodeSettles(i) /\ ExternalCallSettles(i)

\* C30: every analyzeField invocation that passes its guards eventually
\* re-enables the analyze button and restores its label, whether it succeeds,
\* the decode fails, the external call fails or the merge throws, provided
\* the decode and the external call each eventually settle.
C30_ButtonEventuallyRestored ==
    \A i \in 1 .. MaxAnalyses :
        (analyzeFieldCalls[i].pc \in {"loadImage", "analyzeField"})
            ~> (analyzeFieldCalls[i].pc = "settled"
                /\ ~analyzeBtn.disabled /\ ~analyzeBtn.loading)

\* an analysis whose merge threw has settled with the button restored
C30_Witness ==
    \E i \in 1 .. MaxAnalyses :
        /\ analyzeFieldCalls[i].pc = "settled"
        /\ analyzeFieldCalls[i].toast = "failed"
        /\ analyzeFieldCalls[i].sent # Null
        /\ ~analyzeBtn.disabled /\ ~analyzeBtn.loading

====
